---- MODULE Spec2Model ----
(***************************************************************************)
(* Model of the job supervision code of m-courtyard's Tauri backend:       *)
(*   commands/export.rs     run_python_and_emit, export_to_ollama          *)
(*   commands/inference.rs  start_inference                                *)
(*   commands/dataset.rs    start_cleaning, generate_dataset,              *)
(*                          stop_generation, GENERATION_PID                *)
(*   commands/training.rs   start_training, stop_training,                 *)
(*                          TRAINING_PROCESSES                             *)
(*   commands/environment.rs  resolve_ollama_models_dir                    *)
(* Each job is one spawned tokio task supervising one worker process.  The *)
(* worker, the OS pipes and the deadline timer are the environment.        *)
(***************************************************************************)
EXTENDS Integers, Sequences, FiniteSets, TLC

\* ------------------------------------------------------------------------
\* Bounds of the model
\* ------------------------------------------------------------------------

\* number of job slots (job ids 1..NJobs)
NJobs == 2

\* seconds the wall clock can advance (directory names are its readings)
MaxClock == 1

\* stdout lines a worker writes over its life
MaxOut == 2

\* lines the worker of generate_dataset writes over its life, on stdout and
\* stderr together: its job has the directory and the cancelling command
\* besides
MaxGenLines == 1

\* stderr lines a worker writes over its life
MaxErr == 1

\* lines an OS pipe buffer holds when they are short
PipeCap == 2

\* lines an OS pipe buffer holds whatever their length: the write of a line to
\* a pipe that holds fewer never blocks
PipeMin == 1

\* `ollama serve` processes pgrep can list
MaxDaemons == 2

\* stderr lines of a worker whose error message is examined
MaxStderr == 3

\* the largest batch size start_training is asked for
MaxBatch == 3

\* the most non-blank lines a split of the dataset holds
MaxLines == 3

\* turns of the loop that waits for the daemons to go before its 4 s
\* deadline passes (one turn sleeps 300 ms)
GoneRounds == 2

\* turns of the loop that waits for a daemon to appear before its 6 s
\* deadline passes (one turn sleeps 500 ms)
BackRounds == 2

\* ------------------------------------------------------------------------
\* Program constants
\* ------------------------------------------------------------------------

\* export.rs:78  stderr_text.lines().rev().take(12)
TailLines == 12

\* dataset.rs:333  exit code of a process that handled SIGTERM shell-style
CodeSigterm == 143

\* dataset.rs:330  status.code().unwrap_or(-1): the process was killed by a signal
CodeNone == -1

\* dataset.rs:338  exit code reported as an argument parsing failure
CodeArgs == 2

\* dataset.rs:7,12  GENERATION_PID value meaning "no generation running"
NoPid == 0

Jobs == 1..NJobs

\* a job id that start_training never handed out
UnknownJob == 0

JobIds == Jobs \cup {UnknownJob}

\* child.id(): the OS process id of the spawned wrapper of job j (never 0)
Pid(j) == 100 + j

Pids == {Pid(j) : j \in Jobs}

Kinds == {"cleaning", "dataset", "training", "export", "inference"}

ExitCodes == {0, 1, CodeArgs, CodeSigterm, CodeNone}

\* ------------------------------------------------------------------------
\* Lines a worker can print.  utf8: the bytes of the line are valid UTF-8
\* (next_line() gives Ok(Some(line)) for it, Err otherwise); json:
\* serde_json::from_str succeeds; obj: the value is a JSON object; typed: the
\* object has a "type" field that is a string; type: that string; blank: the
\* line is empty after trim(); empty: the line has no character at all.
\* ------------------------------------------------------------------------

\* the type field of the record of a line that has no string "type"
NoType == ""

JsonLine(obj, typed, type) ==
  [utf8 |-> TRUE, json |-> TRUE, obj |-> obj, typed |-> typed, type |-> type,
   blank |-> FALSE, empty |-> FALSE]

RawLine(utf8, blank, empty) ==
  [utf8 |-> utf8, json |-> FALSE, obj |-> FALSE, typed |-> FALSE, type |-> NoType,
   blank |-> blank, empty |-> empty]

LineProgress == JsonLine(TRUE, TRUE, "progress")

LineComplete == JsonLine(TRUE, TRUE, "complete")

LineError == JsonLine(TRUE, TRUE, "error")

\* {"type":""}
LineEmptyType == JsonLine(TRUE, TRUE, "")

\* {"n":1}
LineNoType == JsonLine(TRUE, FALSE, NoType)

\* 5, [1,2]
LineScalar == JsonLine(FALSE, FALSE, NoType)

LineText == RawLine(TRUE, FALSE, FALSE)

\* the empty line
LineBlank == RawLine(TRUE, TRUE, TRUE)

\* a line of spaces
LineSpaces == RawLine(TRUE, TRUE, FALSE)

\* a line whose bytes are not UTF-8
LineBadUtf8 == RawLine(FALSE, FALSE, FALSE)

\* what the workers of the model print on stdout and on stderr
OutLinesOf(k) ==
  CASE k = "training" -> {LineText, LineComplete, LineBadUtf8}
    [] OTHER -> {LineProgress, LineComplete, LineError, LineText, LineNoType,
                 LineScalar, LineEmptyType, LineBadUtf8}

ErrLines == {LineText, LineBlank, LineSpaces, LineBadUtf8}

VARIABLES
  kind,               \* kind[j]: which command starts job j ("none": the slot is unused)
  reqId,              \* reqId[j]: start_inference got a non-empty request_id
  supports_lang,      \* supports_lang[j]: script_supports_lang_arg(&script)
  argv_lang,          \* argv_lang[j]: "--lang" is among the arguments of the spawned worker
  pc,                 \* pc[j]: where job j's supervising task stands
  wstate,             \* wstate[j]: "none" | "running" | "exited" (the worker process)
  wcode,              \* wcode[j]: the worker's exit code once exited
  sigd,               \* sigd[j]: a SIGTERM has been delivered to the running worker
  outPipe, outOpen,   \* stdout pipe of job j: unread lines, write end open
  errPipe, errOpen,   \* stderr pipe of job j
  nOut, nErr,         \* lines written so far
  outRead,            \* outRead[j]: the lines the stdout loop has read, in order
  outDone, errDone,   \* the loop reading the stream has ended on an Err of
                      \* next_line(), and its reader is dropped
  stderrBuf,          \* stderrBuf[j]: the lines the stderr task has collected
  emitted_error,      \* run_python_and_emit's flags
  emitted_complete,
  timed_out,
  waitRes,            \* waitRes[j]: "none" | "ok" | "err"  (child.wait())
  sink,               \* sink[j]: the events app.emit delivered for job j, in order
  dir,                \* dir[j]: "absent" | "tentative" | "final" | "removed"
  GENERATION_PID,     \* dataset.rs:7
  TRAINING_PROCESSES, \* training.rs:10, job id -> pid (NoPid: no entry)
  removals,           \* removals[j]: removals of an existing entry of job j
  stopPc,             \* the cancelling command in flight: "idle", its steps, and
                      \* "not_found" | "sent": the result it is returning
  stopCmd, stopJob, stopPid,
  stopLive,           \* the addressed worker was running when it was looked up
  kills,              \* kills[p]: libc::kill calls made for pid p: with -p (the
                      \* process group) and with p (the process)
  pgrepOk,            \* `pgrep -f "ollama serve"` ran and exited with status 0
  daemons,            \* the processes pgrep lists, in the order of its output:
                      \* what `ps eww -p pid -o command=` gives for each
  shellModels,        \* what the zsh probe of $OLLAMA_MODELS gives
  cfgModels,          \* model_paths.ollama of the saved configuration
  resolved,           \* the result of resolve_ollama_models_dir ("unset": not called)
  launchd,            \* OLLAMA_MODELS in the launchctl environment (NoPath: unset)
  old_daemons,        \* old_daemons[i]: the i-th listed daemon was started
                      \* before launchctl was last updated
  rpc,                \* where apply_ollama_models_dir_and_restart stands: "idle",
                      \* "update", "quit", "pkill", "gone", "open", "back", and
                      \* "ok" | "failed": what it returned
  rounds,             \* turns the polling loop it stands in has made
  applied,            \* the argument it was called with ("unset": not called)
  trail,              \* the external commands it has completed, in order
  ollama_models_dir,  \* the export target of export_to_ollama ("unset": not computed)
  pathCmd,            \* fix_ollama_models_path / reset_ollama_models_path in
                      \* flight: its name and what it returned
  legacy_flat,        \* dataset/train.jsonl exists: the legacy flat layout
  meta_valid,         \* meta_valid[n]: meta.json of dataset/<n> can be read and parsed
  listing,            \* what list_dataset_versions returned last
  listed,             \* list_dataset_versions has been called
  list_result,        \* "none", or what the call returned: "Ok" | "Err"
  root_access,        \* the dataset root: "ok", "no_read" (read_dir fails) or
                      \* "no_search" (nothing below it, or it itself, can be stat'ed)
  dir_access,         \* dir_access[n]: dataset/<n> can be stat'ed and searched
  batch,              \* the batch size start_training was asked for, the line
                      \* counts of the two splits, and the size it passes on
  cleaned,            \* the project's cleaned/ directory: "absent", "kept"
                      \* (holding the files of an earlier run) or "empty"
  clock,              \* chrono::Local::now() in whole seconds
  output_dir,         \* output_dir[j]: the timestamp naming job j's directory
  version_id,         \* version_id[j]: the name announced by dataset:version
  fs,                 \* fs[n]: the directory dataset/<n> of the project
  artifact,           \* artifact[j]: job j's worker wrote train.jsonl
  blocked             \* blocked[j]: the stream whose full pipe the worker is
                      \* blocked writing to ("none" | "out" | "err")

jobVars == <<kind, reqId, supports_lang, argv_lang, pc, emitted_error, emitted_complete, timed_out, waitRes, dir>>

workerVars == <<wstate, wcode, sigd, outOpen, errOpen, nOut, nErr>>

pipeVars == <<outPipe, errPipe, outRead, stderrBuf, outDone, errDone>>

regVars == <<GENERATION_PID, TRAINING_PROCESSES, removals>>

stopVars == <<stopPc, stopCmd, stopJob, stopPid, stopLive, kills>>

restartVars == <<launchd, old_daemons, rpc, rounds, applied, trail, ollama_models_dir>>

listVars == <<legacy_flat, meta_valid, listing, listed, list_result, root_access,
             dir_access>>

asideVars == <<pathCmd, listVars, batch>>

envVars == <<pgrepOk, daemons, shellModels, cfgModels, resolved, restartVars,
             asideVars, cleaned>>

dirVars == <<clock, output_dir, version_id, fs, artifact>>

vars == <<jobVars, workerVars, pipeVars, regVars, stopVars, sink, envVars, dirVars,
          blocked>>

\* ------------------------------------------------------------------------
\* The line protocol and the events delivered to the sink
\* ------------------------------------------------------------------------

\* serde_json::from_str::<serde_json::Value>(&line).is_ok()
ParsesAsJson(line) == line.json

\* event["type"].as_str().unwrap_or("unknown")
EventType(line) ==
  IF line.obj /\ line.typed THEN line.type ELSE "unknown"

NoLine ==
  [utf8 |-> TRUE, json |-> FALSE, obj |-> FALSE, typed |-> FALSE, type |-> "none",
   blank |-> FALSE, empty |-> FALSE]

\* One app.emit call.  prefix and type give the channel ("export:error",
\* "training-log"); src tells which loop emitted it: the stdout loop, the
\* stderr loop or the supervisor itself; key is the correlation field the
\* payload carries; line is the worker's line it was made from; msg, text and
\* code describe a supervisor message.
Event(pfx, type, src, key, line, msg, text, code) ==
  [prefix |-> pfx, type |-> type, src |-> src, key |-> key, line |-> line,
   msg |-> msg, text |-> text, code |-> code]

SupEvent(pfx, type, key, msg, text, code) ==
  Event(pfx, type, "sup", key, NoLine, msg, text, code)

\* The event(s) the stdout loop of a job of kind k emits for one line.
\* export.rs:41-49
ExportStdoutEvents(line) ==
  IF ParsesAsJson(line)
  THEN <<Event("export", EventType(line), "stdout",
               IF line.obj THEN "project_id" ELSE "none", line, "", <<>>, 0)>>
  ELSE <<>>

\* inference.rs:81-92
InferenceStdoutEvents(line, rid) ==
  IF ParsesAsJson(line)
  THEN <<Event("inference", EventType(line), "stdout",
               IF rid /\ line.obj THEN "request_id" ELSE "none", line, "", <<>>, 0)>>
  ELSE <<>>

\* dataset.rs:98-103 (cleaning) and dataset.rs:286-291 (dataset)
TaskStdoutEvents(pfx, line) ==
  IF ParsesAsJson(line)
  THEN <<Event(pfx, EventType(line), "stdout", "none", line, "", <<>>, 0)>>
  ELSE <<Event(pfx, "log", "stdout", "none", line, "", <<>>, 0)>>

\* training.rs:234-239
TrainingStdoutEvents(line) ==
  <<Event("training", "log", "stdout", "job_id", line, "", <<>>, 0)>>

StdoutEvents(k, line, rid) ==
  CASE k = "export" -> ExportStdoutEvents(line)
    [] k = "inference" -> InferenceStdoutEvents(line, rid)
    [] k = "training" -> TrainingStdoutEvents(line)
    [] OTHER -> TaskStdoutEvents(k, line)

\* The event(s) the stderr loop emits for one line: dataset.rs:114-119 and
\* 302-307 (trimmed, non-empty lines become log events), training.rs:248-253
\* (every line), export.rs:25 and inference.rs:70-72 (none: buffered only).
StderrEvents(k, line) ==
  CASE k \in {"cleaning", "dataset"} ->
         IF line.blank THEN <<>>
         ELSE <<Event(k, "log", "stderr", "none", line, "", <<>>, 0)>>
    [] k = "training" ->
         <<Event("training", "log", "stderr", "job_id", line, "", <<>>, 0)>>
    [] OTHER -> <<>>

\* whether the stderr loop of kind k keeps the line for the error message
BuffersStderr(k) == k \in {"export", "inference"}

\* lines.join("\n").is_empty(): no line, or one line without any character
JoinedIsEmpty(buf) == buf = <<>> \/ (Len(buf) = 1 /\ buf[1].empty)

\* str::lines() of the joined text: one trailing line without any character
\* is not a line
TextLines(buf) ==
  IF buf # <<>> /\ buf[Len(buf)].empty THEN SubSeq(buf, 1, Len(buf) - 1) ELSE buf

\* .rev().take(n) ... .rev(): the last n elements, in their order
LastN(s, n) == IF Len(s) <= n THEN s ELSE SubSeq(s, Len(s) - n + 1, Len(s))

\* status.success()
Success(code) == code = 0

\* ------------------------------------------------------------------------
\* Outcome classification
\* ------------------------------------------------------------------------

\* export.rs:70-71: whether run_python_and_emit reports an error of its own
\* after child.wait() returned Ok(status)
ExportNeedsError(code, ee, ec) ==
  LET silent == ~ee /\ ~ec
  IN  (~Success(code) \/ silent) /\ ~ee

\* export.rs:75-81: the message of that error
ExportMessage(buf) ==
  IF JoinedIsEmpty(buf)
  THEN [msg |-> "generic", text |-> <<>>]
  ELSE [msg |-> "stderr_tail", text |-> LastN(TextLines(buf), TailLines)]

\* inference.rs:100-107
InferenceMessage(buf) ==
  IF JoinedIsEmpty(buf)
  THEN [msg |-> "generic", text |-> <<>>]
  ELSE [msg |-> "stderr", text |-> buf]

\* dataset.rs:316-348: the notification generate_dataset emits for an exit code
DatasetOutcome(code) ==
  IF Success(code) THEN "version"
  ELSE IF code = CodeSigterm \/ code = CodeNone THEN "stopped"
  ELSE "error"

\* dataset.rs:338-343
DatasetErrorMsg(code) == IF code = CodeArgs THEN "exit_code_2" ELSE "exit_code"

\* ------------------------------------------------------------------------
\* The Ollama models directory (environment.rs:251-261, 356-433)
\* ------------------------------------------------------------------------

\* environment.rs:251-256  ~/.ollama/models
DefaultDir == "~/.ollama/models"

\* Option::None of a path
NoPath == "none"

\* A whitespace-separated token of a `ps eww` line.  name is what stands
\* before "=" for a token that starts with "OLLAMA_MODELS=" ("" for any other
\* token), value what follows it.
EnvToken(v) == [name |-> "OLLAMA_MODELS", value |-> v]

CmdToken == [name |-> "", value |-> "serve"]

\* the lines `ps eww -p pid -o command=` prints in the model
Cmdlines ==
  { <<CmdToken>>,
    <<CmdToken, EnvToken("")>>,
    <<CmdToken, EnvToken("A1")>>,
    <<CmdToken, EnvToken("A2")>>,
    <<CmdToken, EnvToken(""), EnvToken("A1")>>,
    <<CmdToken, EnvToken("A1"), EnvToken("A2")>> }

\* ps failed, or exited with a non-zero status, for this pid
PsFailed == [ok |-> FALSE, cmd |-> <<>>]

DaemonStates == {PsFailed} \cup {[ok |-> TRUE, cmd |-> c] : c \in Cmdlines}

DaemonLists == UNION {[1..n -> DaemonStates] : n \in 0..MaxDaemons}

\* The zsh probe: it could not be run, it printed nothing but white space,
\* or it printed the value B.
ShellFailed == "failed"

ShellUnset == ""

ShellValues == {ShellFailed, ShellUnset, "B"}

ConfigValues == {NoPath, "C"}

\* environment.rs:356-373  the pids pgrep printed; none when it failed
running_ollama_daemon_pids == IF pgrepOk THEN daemons ELSE <<>>

\* environment.rs:384-386  .find_map(|tok| tok.strip_prefix("OLLAMA_MODELS="))
RECURSIVE FindVar(_)
FindVar(cmd) ==
  IF cmd = <<>> THEN NoPath
  ELSE IF Head(cmd).name = "OLLAMA_MODELS" THEN Head(cmd).value
  ELSE FindVar(Tail(cmd))

\* environment.rs:375-389
ollama_models_from_daemon_pid(d) ==
  IF ~d.ok THEN NoPath
  ELSE LET found == FindVar(d.cmd)
       IN  IF found = NoPath \/ found = "" THEN NoPath ELSE found

\* environment.rs:396-400  the first pid of the list that gives a path
RECURSIVE FirstDaemonPath(_)
FirstDaemonPath(pids) ==
  IF pids = <<>> THEN NoPath
  ELSE IF ollama_models_from_daemon_pid(Head(pids)) # NoPath
       THEN ollama_models_from_daemon_pid(Head(pids))
  ELSE FirstDaemonPath(Tail(pids))

\* environment.rs:391-403 taking the last pid of the list that gives a path
running_dir_of_last_daemon ==
  LET pids == running_ollama_daemon_pids
      exposing == SelectSeq(pids, LAMBDA d : ollama_models_from_daemon_pid(d) # NoPath)
  IN  IF pids = <<>> THEN NoPath
      ELSE IF exposing # <<>> THEN ollama_models_from_daemon_pid(exposing[Len(exposing)])
      ELSE DefaultDir

\* environment.rs:391-403
running_ollama_models_dir ==
  LET pids == running_ollama_daemon_pids
  IN  IF pids = <<>> THEN NoPath
      ELSE IF FirstDaemonPath(pids) # NoPath THEN FirstDaemonPath(pids)
      ELSE DefaultDir

\* environment.rs:407-414
get_ollama_models_dir ==
  IF shellModels = ShellFailed \/ shellModels = ShellUnset THEN NoPath
  ELSE shellModels

\* environment.rs:258-261
config_ollama_models_dir == cfgModels

\* environment.rs:422-433 with the configuration asked before the shell
resolve_config_before_shell ==
  IF running_ollama_models_dir # NoPath THEN running_ollama_models_dir
  ELSE IF config_ollama_models_dir # NoPath THEN config_ollama_models_dir
  ELSE IF get_ollama_models_dir # NoPath THEN get_ollama_models_dir
  ELSE DefaultDir

\* environment.rs:422-433
resolve_ollama_models_dir ==
  IF running_ollama_models_dir # NoPath THEN running_ollama_models_dir
  ELSE IF get_ollama_models_dir # NoPath THEN get_ollama_models_dir
  ELSE IF config_ollama_models_dir # NoPath THEN config_ollama_models_dir
  ELSE DefaultDir

\* export.rs:99-115: the export target.  writable tells whether
\* create_dir_all of the configured directory succeeds; fallback, whether the
\* default directory stands in for a configured one.
resolve_ollama_models_dir_for_export(writable) ==
  IF cfgModels # NoPath
  THEN IF writable THEN [dir |-> cfgModels, fallback |-> FALSE]
       ELSE [dir |-> DefaultDir, fallback |-> TRUE]
  ELSE [dir |-> DefaultDir, fallback |-> FALSE]

\* the argument of apply_ollama_models_dir_and_restart, always the target
ApplyArgAlwaysTarget(target) == target

\* export.rs:328-334: None for the default directory, Some(target) otherwise
ApplyArg(target) == IF target = DefaultDir THEN NoPath ELSE target

\* environment.rs:263-268: launchctl setenv OLLAMA_MODELS p | unsetenv
LaunchctlVerb(value) == IF value = NoPath THEN "unsetenv" ELSE "setenv"

\* the commands of a call that returned Ok, in the order of
\* environment.rs:263-326
RestartOrder(value) ==
  <<LaunchctlVerb(value), "quit", "pkill", "wait_gone", "open", "wait_back">>

\* ------------------------------------------------------------------------
\* The dataset directory of a project (dataset.rs:196-223, 316-368, 394-419)
\* ------------------------------------------------------------------------

\* directory names: the readings of the clock, format("%Y%m%d_%H%M%S")
Names == 0..MaxClock

\* no directory name
NoName == -1

\* a directory that does not exist
AbsentDir == [exists |-> FALSE, meta |-> FALSE, train |-> FALSE]

\* dataset.rs:199, 219-222  create_dir_all(&output_dir) and the write of
\* meta.json, the results of both dropped by `let _ =`.  made: the directory
\* was created (one that exists keeps what it holds); wrote: the file was
\* written, which takes a directory to write into.
CreateWithMeta(f, n, made, wrote) ==
  [f EXCEPT ![n] = [exists |-> @.exists \/ made,
                    meta |-> @.meta \/ (wrote /\ (@.exists \/ made)),
                    train |-> @.train]]

\* std::fs::remove_dir_all(&output_dir), its result dropped by `let _ =`
\* (dataset.rs:332, 351, 366): what the call can leave behind.  The directory
\* is gone, or the call failed, before or after it deleted files of it.
RemoveDirAll(f, n) ==
  IF n = NoName \/ ~f[n].exists THEN {f}
  ELSE {[f EXCEPT ![n] = d] :
          d \in {AbsentDir} \cup
                {[exists |-> TRUE, meta |-> m, train |-> t] :
                   m \in {f[n].meta, FALSE}, t \in {f[n].train, FALSE}}}

\* `let _ = std::fs::remove_dir_all(&output_dir)` on the directory named n
\* (dataset.rs:332, 351, 366)
RemoveOutputDir(n) == fs' \in RemoveDirAll(fs, n)

\* whether std::fs::rename(src, dst) can succeed: src exists, and dst is src
\* itself, does not exist or is an empty directory
RenamePossible(f, src, dst) ==
  /\ f[src].exists
  /\ \/ src = dst
     \/ ~f[dst].exists
     \/ (~f[dst].meta /\ ~f[dst].train)

\* the directories after a successful std::fs::rename(src, dst)
Rename(f, src, dst) ==
  IF src = dst THEN f ELSE [f EXCEPT ![dst] = f[src], ![src] = AbsentDir]

\* the listing that takes every subdirectory for a version
list_all_directories == {n \in Names : fs[n].exists}

\* dataset.rs:407-419  the directories list_dataset_versions returns: the
\* entries of read_dir for which path.is_dir() and
\* path.join("train.jsonl").exists() are true.  Both are false for what
\* cannot be stat'ed, so that a directory that cannot be searched, and every
\* entry of a root that cannot be searched, is passed over.
list_dataset_versions ==
  IF root_access # "ok" THEN {}
  ELSE {n \in Names : fs[n].exists /\ dir_access[n] /\ fs[n].train}

\* DatasetVersionInfo.version: the directory name, or "legacy"
TimestampVersion(n) == [legacy |-> FALSE, ts |-> n]

LegacyVersion == [legacy |-> TRUE, ts |-> 0]

\* String::cmp of two version names, a > b: the names of the directories are
\* timestamps of one width that start with a digit, and "legacy" starts with
\* a letter, which sorts after every digit
VersionGreater(a, b) ==
  IF a.legacy # b.legacy THEN a.legacy ELSE a.ts > b.ts

\* dataset.rs:499  versions.sort_by(|a, b| b.version.cmp(&a.version))
RECURSIVE SortDescending(_)
SortDescending(S) ==
  IF S = {} THEN <<>>
  ELSE LET first == CHOOSE x \in S :
                      \A y \in S \ {x} : VersionGreater(x.version, y.version)
       IN  <<first>> \o SortDescending(S \ {first})

\* dataset.rs:410-500: one entry for every directory listed, with the
\* provenance of a meta.json that exists and parses (empty otherwise), one
\* entry for the legacy flat layout, sorted by version name descending
DatasetVersionInfos ==
  LET entries == {[version |-> TimestampVersion(n),
                   provenance |-> fs[n].meta /\ meta_valid[n]] :
                    n \in list_dataset_versions}
      flat == IF legacy_flat /\ root_access = "ok"
              THEN {[version |-> LegacyVersion, provenance |-> FALSE]}
              ELSE {}
  IN  SortDescending(entries \cup flat)

\* ------------------------------------------------------------------------
\* Initial state: the commands of one run, one job of any kind in slot 1.
\* ------------------------------------------------------------------------

Plans == {[j \in Jobs |-> IF j = 1 THEN k ELSE "none"] : k \in Kinds}

InitSupervision ==
  /\ reqId \in {[j \in Jobs |-> b] : b \in BOOLEAN}
  /\ supports_lang \in {[j \in Jobs |-> b] : b \in BOOLEAN}
  /\ (kind[1] # "inference" => reqId[1])
  /\ (kind[1] \notin {"cleaning", "dataset"} => supports_lang[1])
  /\ cleaned \in {"absent", "kept"}
  /\ (kind[1] # "cleaning" => cleaned = "absent")
  /\ argv_lang = [j \in Jobs |-> FALSE]
  /\ pc = [j \in Jobs |-> "idle"]
  /\ wstate = [j \in Jobs |-> "none"]
  /\ wcode = [j \in Jobs |-> 0]
  /\ sigd = [j \in Jobs |-> FALSE]
  /\ outPipe = [j \in Jobs |-> <<>>]
  /\ outOpen = [j \in Jobs |-> FALSE]
  /\ errPipe = [j \in Jobs |-> <<>>]
  /\ errOpen = [j \in Jobs |-> FALSE]
  /\ nOut = [j \in Jobs |-> 0]
  /\ nErr = [j \in Jobs |-> 0]
  /\ outRead = [j \in Jobs |-> <<>>]
  /\ stderrBuf = [j \in Jobs |-> <<>>]
  /\ outDone = [j \in Jobs |-> FALSE]
  /\ errDone = [j \in Jobs |-> FALSE]
  /\ emitted_error = [j \in Jobs |-> FALSE]
  /\ emitted_complete = [j \in Jobs |-> FALSE]
  /\ timed_out = [j \in Jobs |-> FALSE]
  /\ waitRes = [j \in Jobs |-> "none"]
  /\ sink = [j \in Jobs |-> <<>>]
  /\ dir = [j \in Jobs |-> "absent"]
  /\ GENERATION_PID = NoPid
  /\ TRAINING_PROCESSES = [i \in JobIds |-> NoPid]
  /\ removals = [j \in Jobs |-> 0]
  /\ stopPc = "idle"
  /\ stopCmd = "none"
  /\ stopLive = FALSE
  /\ stopJob = UnknownJob
  /\ stopPid = NoPid
  /\ kills = [p \in Pids |-> [group |-> 0, direct |-> 0]]
  /\ clock = 0
  /\ output_dir = [j \in Jobs |-> NoName]
  /\ version_id = [j \in Jobs |-> NoName]
  /\ artifact = [j \in Jobs |-> FALSE]
  /\ blocked = [j \in Jobs |-> "none"]

\* no call of apply_ollama_models_dir_and_restart made, nothing in launchctl
RestartAtRest ==
  /\ launchd = NoPath
  /\ rpc = "idle"
  /\ rounds = 0
  /\ applied = "unset"
  /\ trail = <<>>
  /\ ollama_models_dir = "unset"
  /\ pathCmd = [name |-> "none", result |-> "none"]

\* launchctl not updated since any of the listed daemons started
NoOldDaemons == old_daemons = [i \in 1..Len(daemons) |-> FALSE]

\* list_dataset_versions not called, an empty dataset root
ListAtRest ==
  /\ fs = [n \in Names |-> AbsentDir]
  /\ legacy_flat = FALSE
  /\ meta_valid = [n \in Names |-> TRUE]
  /\ listing = <<>>
  /\ listed = FALSE
  /\ list_result = "none"
  /\ root_access = "ok"
  /\ dir_access = [n \in Names |-> TRUE]

\* start_training not asked for any batch size
BatchAtRest == batch = [requested |-> 0, train |-> 0, valid |-> 0, passed |-> 0, done |-> FALSE]

\* no `ollama serve` process, nothing in the shell, nothing configured
EnvAtRest ==
  /\ RestartAtRest /\ ListAtRest /\ BatchAtRest
  /\ pgrepOk = FALSE
  /\ daemons = <<>>
  /\ NoOldDaemons
  /\ shellModels = ShellUnset
  /\ cfgModels = NoPath
  /\ resolved = "unset"

Init == kind \in Plans /\ InitSupervision /\ EnvAtRest

\* an emit that puts the events before those already delivered
EmitAtFront(j, evs) == sink' = [sink EXCEPT ![j] = evs \o @]

\* app.emit: the events are delivered after those already delivered
Emit(j, evs) == sink' = [sink EXCEPT ![j] = @ \o evs]

\* the correlation field of a job's own notifications
SupKey(k) ==
  CASE k = "export" -> "project_id"
    [] k = "inference" -> "request_id"
    [] k = "training" -> "job_id"
    [] OTHER -> "none"

\* ------------------------------------------------------------------------
\* The start commands
\* ------------------------------------------------------------------------

\* the checks a start command makes before tokio::spawn, in their order:
\* dataset.rs:31-53, 166-190  training.rs:23-73  export.rs:270-310
\* inference.rs:16-25
Preconditions(k) ==
  CASE k = "cleaning" -> {"runtime", "raw", "script"}
    [] k = "dataset" -> {"runtime", "segments", "script"}
    [] k = "training" -> {"runtime", "params", "dataset"}
    [] k = "export" -> {"runtime", "script", "adapter"}
    [] OTHER -> {"runtime", "script"}

\* dataset.rs:42-53: start_cleaning removes and recreates cleaned/ after the
\* checks of the runtime and of raw/, and before the check of the script
ClearsCleanedBefore(k, failed) == k = "cleaning" /\ failed = "script"

\* dataset.rs:43-47: `let _ = remove_dir_all(&cleaned_dir)` when cleaned/
\* exists, then `let _ = create_dir_all(&cleaned_dir)`: what the two calls,
\* their results dropped, can leave of a directory in state c
ClearCleaned(c) ==
  IF c = "kept" THEN {"empty", "kept", "absent"} ELSE {"empty", "absent"}

\* A rejected start that still reports an error to the sink.
StartRejectedWithEvent(j) ==
  /\ pc[j] = "idle" /\ kind[j] # "none"
  /\ pc' = [pc EXCEPT ![j] = "rejected"]
  /\ Emit(j, <<SupEvent(kind[j], "error", SupKey(kind[j]), "rejected", <<>>, 0)>>)
  /\ UNCHANGED <<kind, reqId, supports_lang, argv_lang, emitted_error, emitted_complete,
                 timed_out, waitRes, dir>>
  /\ UNCHANGED <<workerVars, pipeVars, regVars, stopVars>>
  /\ UNCHANGED <<dirVars, envVars, blocked>>

\* A start command whose precondition fails returns Err before tokio::spawn:
\* dataset.rs:30-53,166-190  training.rs:23-73  export.rs:270-310
\* inference.rs:16-25
StartRejected(j) ==
  /\ pc[j] = "idle" /\ kind[j] # "none"
  /\ pc' = [pc EXCEPT ![j] = "rejected"]
  /\ \E failed \in Preconditions(kind[j]) :
       IF ClearsCleanedBefore(kind[j], failed)
       THEN cleaned' \in ClearCleaned(cleaned)
       ELSE cleaned' = cleaned
  /\ UNCHANGED <<kind, reqId, supports_lang, argv_lang, emitted_error, emitted_complete,
                 timed_out, waitRes, dir>>
  /\ UNCHANGED <<workerVars, pipeVars, regVars, stopVars, sink>>
  /\ UNCHANGED <<dirVars, blocked>>
  /\ UNCHANGED <<pgrepOk, daemons, shellModels, cfgModels, resolved, restartVars, asideVars>>

\* The start command passes its checks, prepares the job and hands it to
\* tokio::spawn: it returns Ok before the worker exists.  start_cleaning has
\* cleared cleaned/ as far as the file system allowed.  generate_dataset
\* calls create_dir_all for the tentative directory and writes meta.json,
\* whether or not either succeeds (dataset.rs:196-223);
\* export_to_ollama finds the daemon on the export target (export.rs:326-327).
StartOk(j) ==
  /\ pc[j] = "idle" /\ kind[j] # "none"
  /\ IF kind[j] = "cleaning"
     THEN cleaned' \in ClearCleaned(cleaned)
     ELSE cleaned' = cleaned
  /\ kind[j] = "export" =>
       resolve_ollama_models_dir = resolve_ollama_models_dir_for_export(TRUE).dir
  /\ pc' = [pc EXCEPT ![j] = "spawn"]
  /\ dir' = [dir EXCEPT ![j] = IF kind[j] = "dataset" THEN "tentative" ELSE @]
  /\ output_dir' = [output_dir EXCEPT ![j] = IF kind[j] = "dataset" THEN clock ELSE @]
  /\ \E made, wrote \in BOOLEAN :
       /\ kind[j] # "dataset" => (made /\ wrote)
       /\ fs' = IF kind[j] = "dataset" THEN CreateWithMeta(fs, clock, made, wrote) ELSE fs
  /\ UNCHANGED <<clock, version_id, artifact>>
  /\ UNCHANGED <<kind, reqId, supports_lang, argv_lang, emitted_error, emitted_complete,
                 timed_out, waitRes>>
  /\ UNCHANGED <<workerVars, pipeVars, regVars, stopVars, sink>>
  /\ UNCHANGED blocked
  /\ UNCHANGED <<pgrepOk, daemons, shellModels, cfgModels, resolved, restartVars, asideVars>>

\* whether the start command of kind k calls script_supports_lang_arg on
\* its script: dataset.rs:54, 191
ProbesLang(k) == k \in {"cleaning", "dataset"}

\* whether "--lang" is pushed onto the worker's arguments, given the result
\* of the probe: dataset.rs:67-70, 245-248  export.rs:351  inference.rs:51-52
\* (mlx_lm lora of start_training takes no such argument)
PassesLang(k, supported) ==
  CASE k \in {"cleaning", "dataset"} -> supported
    [] k \in {"export", "inference"} -> TRUE
    [] OTHER -> FALSE

\* dataset.rs:67-77, 245-255: the notice emitted before the spawn when the
\* script has no --lang argument
LangNotice(j) ==
  IF kind[j] \in {"cleaning", "dataset"} /\ ~supports_lang[j]
  THEN <<SupEvent(kind[j], "log", "none", "lang_fallback", <<>>, 0)>>
  ELSE <<>>

\* where the task goes once the worker is spawned
AfterSpawn(k) ==
  CASE k = "export" -> "read"
    [] k = "inference" -> "read"
    [] k = "cleaning" -> "wait"
    [] k = "dataset" -> "store"
    [] k = "training" -> "insert"

\* cmd.spawn() returns Ok(child): dataset.rs:80-87, 264-271  training.rs:213-216
\* export.rs:357-359  inference.rs:54-61
SpawnOk(j) ==
  /\ pc[j] = "spawn"
  /\ pc' = [pc EXCEPT ![j] = AfterSpawn(kind[j])]
  /\ wstate' = [wstate EXCEPT ![j] = "running"]
  /\ outOpen' = [outOpen EXCEPT ![j] = TRUE]
  /\ errOpen' = [errOpen EXCEPT ![j] = TRUE]
  /\ argv_lang' = [argv_lang EXCEPT ![j] = PassesLang(kind[j], supports_lang[j])]
  /\ Emit(j, LangNotice(j))
  /\ UNCHANGED <<kind, reqId, supports_lang, emitted_error, emitted_complete,
                 timed_out, waitRes, dir>>
  /\ UNCHANGED <<wcode, sigd, nOut, nErr>>
  /\ UNCHANGED <<pipeVars, regVars, stopVars>>
  /\ UNCHANGED <<dirVars, envVars, blocked>>

\* cmd.spawn() returns Err(e): one error notification, and generate_dataset
\* removes the tentative directory.  dataset.rs:145-149, 365-370
\* training.rs:278-283  export.rs:360-364  inference.rs:122-127
SpawnFail(j) ==
  /\ pc[j] = "spawn"
  /\ pc' = [pc EXCEPT ![j] = "done"]
  /\ dir' = [dir EXCEPT ![j] = IF kind[j] = "dataset" THEN "removed" ELSE @]
  /\ RemoveOutputDir(output_dir[j])
  /\ UNCHANGED <<clock, output_dir, version_id, artifact>>
  /\ Emit(j, LangNotice(j) \o
             <<SupEvent(kind[j], "error", SupKey(kind[j]), "spawn_err", <<>>, 0)>>)
  /\ UNCHANGED <<kind, reqId, supports_lang, argv_lang, emitted_error, emitted_complete,
                 timed_out, waitRes>>
  /\ UNCHANGED <<workerVars, pipeVars, regVars, stopVars>>
  /\ UNCHANGED <<envVars, blocked>>

\* ------------------------------------------------------------------------
\* The worker process and its pipes (environment)
\* ------------------------------------------------------------------------

\* whether the process of job j has lines left to write
HasLinesLeft(j) == kind[j] = "dataset" => nOut[j] + nErr[j] < MaxGenLines

\* a process that holds the write end of stdout writes a line: the worker,
\* or once it has exited a descendant of it that inherited the pipe
WorkerWriteOut(j, line) ==
  /\ wstate[j] # "none" /\ outOpen[j] /\ ~outDone[j] /\ nOut[j] < MaxOut
  /\ HasLinesLeft(j)
  /\ blocked[j] \in {"none", "out"}
  /\ Len(outPipe[j]) < (IF blocked[j] = "out" THEN PipeMin ELSE PipeCap)
  /\ blocked' = [blocked EXCEPT ![j] = "none"]
  /\ outPipe' = [outPipe EXCEPT ![j] = Append(@, line)]
  /\ nOut' = [nOut EXCEPT ![j] = @ + 1]
  /\ UNCHANGED <<wstate, wcode, sigd, outOpen, errOpen, nErr>>
  /\ UNCHANGED <<errPipe, outRead, stderrBuf, outDone, errDone>>
  /\ UNCHANGED <<jobVars, regVars, stopVars, sink>>
  /\ UNCHANGED <<dirVars, envVars>>

WorkerWritesErr(j, line, most) ==
  /\ wstate[j] # "none" /\ errOpen[j] /\ ~errDone[j] /\ nErr[j] < most
  /\ HasLinesLeft(j)
  /\ blocked[j] \in {"none", "err"}
  /\ Len(errPipe[j]) < (IF blocked[j] = "err" THEN PipeMin ELSE PipeCap)
  /\ blocked' = [blocked EXCEPT ![j] = "none"]
  /\ errPipe' = [errPipe EXCEPT ![j] = Append(@, line)]
  /\ nErr' = [nErr EXCEPT ![j] = @ + 1]
  /\ UNCHANGED <<wstate, wcode, sigd, outOpen, errOpen, nOut>>
  /\ UNCHANGED <<outPipe, outRead, stderrBuf, outDone, errDone>>
  /\ UNCHANGED <<jobVars, regVars, stopVars, sink>>
  /\ UNCHANGED <<dirVars, envVars>>

WorkerWriteErr(j, line) == WorkerWritesErr(j, line, MaxErr)

\* the holder of stdout closes it and keeps running
WorkerCloseOut(j) ==
  /\ wstate[j] # "none" /\ outOpen[j] /\ blocked[j] = "none"
  /\ outOpen' = [outOpen EXCEPT ![j] = FALSE]
  /\ UNCHANGED <<wstate, wcode, sigd, errOpen, nOut, nErr>>
  /\ UNCHANGED <<jobVars, pipeVars, regVars, stopVars, sink>>
  /\ UNCHANGED <<dirVars, envVars, blocked>>

\* The spawned process ends.  Its write ends of the pipes close with it; the
\* pipes stay open when a descendant that inherited them (the python started
\* by the caffeinate wrapper, a subshell) lives on: orphans.
Exited(j, code, orphans) ==
  /\ blocked' = [blocked EXCEPT ![j] = "none"]
  /\ wstate' = [wstate EXCEPT ![j] = "exited"]
  /\ wcode' = [wcode EXCEPT ![j] = code]
  /\ outOpen' = [outOpen EXCEPT ![j] = @ /\ orphans]
  /\ errOpen' = [errOpen EXCEPT ![j] = @ /\ orphans]

\* The worker ends: it exits with an exit code (143 is the code of a worker
\* that caught SIGTERM), or a signal kills it, SIGTERM of a stop command or any
\* other (CodeNone: the status carries no exit code).
WorkerExit(j, code, orphans) ==
  /\ wstate[j] = "running" /\ (blocked[j] = "none" \/ code = CodeNone)
  /\ Exited(j, code, orphans)
  /\ UNCHANGED <<sigd, nOut, nErr>>
  /\ UNCHANGED <<jobVars, pipeVars, regVars, stopVars, sink>>
  /\ UNCHANGED <<dirVars, envVars>>

\* the last descendant that held the pipes of an exited worker ends
DescendantExits(j) ==
  /\ wstate[j] = "exited" /\ (outOpen[j] \/ errOpen[j])
  /\ outOpen' = [outOpen EXCEPT ![j] = FALSE]
  /\ errOpen' = [errOpen EXCEPT ![j] = FALSE]
  /\ blocked' = [blocked EXCEPT ![j] = "none"]
  /\ UNCHANGED <<wstate, wcode, sigd, nOut, nErr>>
  /\ UNCHANGED <<jobVars, pipeVars, regVars, stopVars, sink>>
  /\ UNCHANGED <<dirVars, envVars>>

\* ------------------------------------------------------------------------
\* The stream loops
\* ------------------------------------------------------------------------

\* the states of the task in which its stdout loop is reading
StdoutLoopRuns(j) ==
  CASE kind[j] \in {"export", "inference"} -> pc[j] = "read"
    [] kind[j] = "cleaning" -> pc[j] \in {"wait", "join"}
    [] kind[j] = "dataset" -> pc[j] \in {"clear", "wait", "join"}
    [] kind[j] = "training" -> pc[j] = "drain"
    [] OTHER -> FALSE

\* the states of the task in which its stderr loop is reading (the task of
\* export and inference reads on when its handle is dropped)
StderrLoopRuns(j) ==
  CASE kind[j] \in {"export", "inference"} ->
         pc[j] \in {"read", "kill", "wait", "join", "done"}
    [] kind[j] = "cleaning" -> pc[j] \in {"wait", "join"}
    [] kind[j] = "dataset" -> pc[j] \in {"clear", "wait", "join"}
    [] kind[j] = "training" -> pc[j] = "drain"
    [] OTHER -> FALSE

\* lines.next_line() returned Ok(None): end of file
OutEof(j) == outPipe[j] = <<>> /\ ~outOpen[j]

ErrEof(j) == errPipe[j] = <<>> /\ ~errOpen[j]

\* `while let Ok(Some(line)) = lines.next_line().await` is over: on Ok(None)
\* or on Err
OutLoopEnded(j) == outDone[j] \/ OutEof(j)

ErrLoopEnded(j) == errDone[j] \/ ErrEof(j)

\* One turn of `while let Ok(Some(line)) = lines.next_line().await` on stdout:
\* export.rs:40-50  inference.rs:80-93  dataset.rs:96-104, 285-292
\* training.rs:234-239.  On a line that is not UTF-8 next_line() gives Err and
\* the loop ends; its reader is dropped, which wakes a writer blocked on the
\* pipe.
ReadStdout(j) ==
  /\ StdoutLoopRuns(j) /\ ~outDone[j] /\ outPipe[j] # <<>>
  /\ LET line == Head(outPipe[j])
     IN  /\ outPipe' = [outPipe EXCEPT ![j] = Tail(@)]
         /\ IF line.utf8
            THEN /\ outRead' = [outRead EXCEPT ![j] = Append(@, line)]
                 /\ Emit(j, StdoutEvents(kind[j], line, reqId[j]))
                 /\ emitted_error' =
                      [emitted_error EXCEPT ![j] =
                         @ \/ (kind[j] = "export" /\ ParsesAsJson(line)
                                 /\ EventType(line) = "error")]
                 /\ emitted_complete' =
                      [emitted_complete EXCEPT ![j] =
                         @ \/ (kind[j] = "export" /\ ParsesAsJson(line)
                                 /\ EventType(line) = "complete")]
                 /\ UNCHANGED <<outDone, blocked>>
            ELSE /\ outDone' = [outDone EXCEPT ![j] = TRUE]
                 /\ blocked' = [blocked EXCEPT ![j] = IF @ = "out" THEN "none" ELSE @]
                 /\ UNCHANGED <<outRead, sink, emitted_error, emitted_complete>>
  /\ UNCHANGED <<kind, reqId, supports_lang, argv_lang, pc, timed_out, waitRes, dir>>
  /\ UNCHANGED <<errPipe, stderrBuf, errDone>>
  /\ UNCHANGED <<workerVars, regVars, stopVars>>
  /\ UNCHANGED <<dirVars, envVars>>

\* One turn of the stderr loop: export.rs:23-26  inference.rs:66-74
\* dataset.rs:111-120, 299-308  training.rs:245-255
ReadStderr(j) ==
  /\ StderrLoopRuns(j) /\ ~errDone[j] /\ errPipe[j] # <<>>
  /\ LET line == Head(errPipe[j])
     IN  /\ errPipe' = [errPipe EXCEPT ![j] = Tail(@)]
         /\ IF line.utf8
            THEN /\ stderrBuf' = [stderrBuf EXCEPT ![j] =
                                    IF BuffersStderr(kind[j]) THEN Append(@, line) ELSE @]
                 /\ Emit(j, StderrEvents(kind[j], line))
                 /\ UNCHANGED <<errDone, blocked>>
            ELSE /\ errDone' = [errDone EXCEPT ![j] = TRUE]
                 /\ blocked' = [blocked EXCEPT ![j] = IF @ = "err" THEN "none" ELSE @]
                 /\ UNCHANGED <<stderrBuf, sink>>
  /\ UNCHANGED <<outPipe, outRead, outDone>>
  /\ UNCHANGED <<jobVars, workerVars, regVars, stopVars>>
  /\ UNCHANGED <<dirVars, envVars>>

\* ------------------------------------------------------------------------
\* run_python_and_emit (export.rs:12-93), started by export_to_ollama
\* ------------------------------------------------------------------------

\* the stdout loop ended, at end of file or on an Err of next_line(), before
\* the deadline: Ok((e, c)) => (e, c, false)
ExportEof(j) ==
  /\ kind[j] = "export" /\ pc[j] = "read" /\ OutLoopEnded(j)
  /\ pc' = [pc EXCEPT ![j] = "wait"]
  /\ UNCHANGED <<kind, reqId, supports_lang, argv_lang, emitted_error, emitted_complete,
                 timed_out, waitRes, dir>>
  /\ UNCHANGED <<workerVars, pipeVars, regVars, stopVars, sink>>
  /\ UNCHANGED <<dirVars, envVars, blocked>>

\* The deadline fires while the stdout loop is still reading (export.rs:53-60):
\* the loop's future is dropped with its reader and its two flags,
\* Err(_) => (false, false, true), and child.kill() sends SIGKILL to the
\* spawned process.
ExportTimeout(j) ==
  /\ kind[j] = "export" /\ pc[j] = "read"
  /\ timed_out' = [timed_out EXCEPT ![j] = TRUE]
  /\ emitted_error' = [emitted_error EXCEPT ![j] = FALSE]
  /\ emitted_complete' = [emitted_complete EXCEPT ![j] = FALSE]
  /\ outDone' = [outDone EXCEPT ![j] = TRUE]
  /\ IF wstate[j] = "running"
     THEN \E orphans \in BOOLEAN : Exited(j, CodeNone, orphans)
     ELSE /\ blocked' = [blocked EXCEPT ![j] = IF @ = "out" THEN "none" ELSE @]
          /\ UNCHANGED <<wstate, wcode, outOpen, errOpen>>
  /\ pc' = [pc EXCEPT ![j] = "kill"]
  /\ UNCHANGED <<kind, reqId, supports_lang, argv_lang, waitRes, dir>>
  /\ UNCHANGED <<sigd, nOut, nErr>>
  /\ UNCHANGED <<outPipe, errPipe, outRead, stderrBuf, errDone>>
  /\ UNCHANGED <<regVars, stopVars, sink>>
  /\ UNCHANGED <<dirVars, envVars>>

\* A task that, resumed after the kill, emits the timeout error and goes on
\* to wait for the worker.
ExportTimeoutThenWait(j) ==
  /\ kind[j] = "export" /\ pc[j] = "kill"
  /\ Emit(j, <<SupEvent("export", "error", "project_id", "timeout", <<>>, 0)>>)
  /\ pc' = [pc EXCEPT ![j] = "wait"]
  /\ UNCHANGED <<kind, reqId, supports_lang, argv_lang, emitted_error, emitted_complete,
                 timed_out, waitRes, dir>>
  /\ UNCHANGED <<workerVars, pipeVars, regVars, stopVars>>
  /\ UNCHANGED <<dirVars, envVars, blocked>>

\* child.kill().await returned, the killed process being reaped
\* (export.rs:60-66): the timeout error is emitted and the task returns.
ExportTimedOut(j) ==
  /\ kind[j] = "export" /\ pc[j] = "kill"
  /\ Emit(j, <<SupEvent("export", "error", "project_id", "timeout", <<>>, 0)>>)
  /\ pc' = [pc EXCEPT ![j] = "done"]
  /\ UNCHANGED <<kind, reqId, supports_lang, argv_lang, emitted_error, emitted_complete,
                 timed_out, waitRes, dir>>
  /\ UNCHANGED <<workerVars, pipeVars, regVars, stopVars>>
  /\ UNCHANGED <<dirVars, envVars, blocked>>

\* child.wait().await returned Ok(status): export.rs:68-71
ExportWaitOk(j) ==
  /\ kind[j] = "export" /\ pc[j] = "wait" /\ wstate[j] = "exited"
  /\ waitRes' = [waitRes EXCEPT ![j] = "ok"]
  /\ pc' = [pc EXCEPT ![j] =
              IF ExportNeedsError(wcode[j], emitted_error[j], emitted_complete[j])
              THEN "join" ELSE "done"]
  /\ UNCHANGED <<kind, reqId, supports_lang, argv_lang, emitted_error, emitted_complete,
                 timed_out, dir>>
  /\ UNCHANGED <<workerVars, pipeVars, regVars, stopVars, sink>>
  /\ UNCHANGED <<dirVars, envVars, blocked>>

\* h.await returned the collected stderr: the error is emitted (export.rs:72-84)
ExportJoin(j) ==
  /\ kind[j] = "export" /\ pc[j] = "join" /\ ErrLoopEnded(j)
  /\ LET m == ExportMessage(stderrBuf[j])
     IN  Emit(j, <<SupEvent("export", "error", "project_id", m.msg, m.text, 0)>>)
  /\ pc' = [pc EXCEPT ![j] = "done"]
  /\ UNCHANGED <<kind, reqId, supports_lang, argv_lang, emitted_error, emitted_complete,
                 timed_out, waitRes, dir>>
  /\ UNCHANGED <<workerVars, pipeVars, regVars, stopVars>>
  /\ UNCHANGED <<dirVars, envVars, blocked>>

\* child.wait().await returned Err(e): export.rs:87-91
ExportWaitErr(j) ==
  /\ kind[j] = "export" /\ pc[j] = "wait" /\ wstate[j] = "exited"
  /\ waitRes' = [waitRes EXCEPT ![j] = "err"]
  /\ Emit(j, <<SupEvent("export", "error", "project_id", "wait_err", <<>>, 0)>>)
  /\ pc' = [pc EXCEPT ![j] = "done"]
  /\ UNCHANGED <<kind, reqId, supports_lang, argv_lang, emitted_error, emitted_complete,
                 timed_out, dir>>
  /\ UNCHANGED <<workerVars, pipeVars, regVars, stopVars>>
  /\ UNCHANGED <<dirVars, envVars, blocked>>

\* ------------------------------------------------------------------------
\* start_inference (inference.rs:34-129)
\* ------------------------------------------------------------------------

\* the stdout loop reached end of file: inference.rs:80, 94
InferenceEof(j) ==
  /\ kind[j] = "inference" /\ pc[j] = "read" /\ OutLoopEnded(j)
  /\ pc' = [pc EXCEPT ![j] = "wait"]
  /\ UNCHANGED <<kind, reqId, supports_lang, argv_lang, emitted_error, emitted_complete,
                 timed_out, waitRes, dir>>
  /\ UNCHANGED <<workerVars, pipeVars, regVars, stopVars, sink>>
  /\ UNCHANGED <<dirVars, envVars, blocked>>

\* inference.rs:96-98
InferenceWaitOk(j) ==
  /\ kind[j] = "inference" /\ pc[j] = "wait" /\ wstate[j] = "exited"
  /\ waitRes' = [waitRes EXCEPT ![j] = "ok"]
  /\ pc' = [pc EXCEPT ![j] = IF ~Success(wcode[j]) THEN "join" ELSE "done"]
  /\ UNCHANGED <<kind, reqId, supports_lang, argv_lang, emitted_error, emitted_complete,
                 timed_out, dir>>
  /\ UNCHANGED <<workerVars, pipeVars, regVars, stopVars, sink>>
  /\ UNCHANGED <<dirVars, envVars, blocked>>

\* inference.rs:100-111
InferenceJoin(j) ==
  /\ kind[j] = "inference" /\ pc[j] = "join" /\ ErrLoopEnded(j)
  /\ LET m == InferenceMessage(stderrBuf[j])
     IN  Emit(j, <<SupEvent("inference", "error", "request_id", m.msg, m.text, 0)>>)
  /\ pc' = [pc EXCEPT ![j] = "done"]
  /\ UNCHANGED <<kind, reqId, supports_lang, argv_lang, emitted_error, emitted_complete,
                 timed_out, waitRes, dir>>
  /\ UNCHANGED <<workerVars, pipeVars, regVars, stopVars>>
  /\ UNCHANGED <<dirVars, envVars, blocked>>

\* inference.rs:114-119
InferenceWaitErr(j) ==
  /\ kind[j] = "inference" /\ pc[j] = "wait" /\ wstate[j] = "exited"
  /\ waitRes' = [waitRes EXCEPT ![j] = "err"]
  /\ Emit(j, <<SupEvent("inference", "error", "request_id", "wait_err", <<>>, 0)>>)
  /\ pc' = [pc EXCEPT ![j] = "done"]
  /\ UNCHANGED <<kind, reqId, supports_lang, argv_lang, emitted_error, emitted_complete,
                 timed_out, dir>>
  /\ UNCHANGED <<workerVars, pipeVars, regVars, stopVars>>
  /\ UNCHANGED <<dirVars, envVars, blocked>>

\* ------------------------------------------------------------------------
\* start_cleaning (dataset.rs:58-151)
\* ------------------------------------------------------------------------

\* dataset.rs:123-130
CleaningWaitOk(j) ==
  /\ kind[j] = "cleaning" /\ pc[j] = "wait" /\ wstate[j] = "exited"
  /\ waitRes' = [waitRes EXCEPT ![j] = "ok"]
  /\ Emit(j, IF ~Success(wcode[j])
             THEN <<SupEvent("cleaning", "error", "none", "exit_error", <<>>, 0)>>
             ELSE <<>>)
  /\ pc' = [pc EXCEPT ![j] = "join"]
  /\ UNCHANGED <<kind, reqId, supports_lang, argv_lang, emitted_error, emitted_complete,
                 timed_out, dir>>
  /\ UNCHANGED <<workerVars, pipeVars, regVars, stopVars>>
  /\ UNCHANGED <<dirVars, envVars, blocked>>

\* dataset.rs:131-135
CleaningWaitErr(j) ==
  /\ kind[j] = "cleaning" /\ pc[j] = "wait" /\ wstate[j] = "exited"
  /\ waitRes' = [waitRes EXCEPT ![j] = "err"]
  /\ Emit(j, <<SupEvent("cleaning", "error", "none", "wait_err", <<>>, 0)>>)
  /\ pc' = [pc EXCEPT ![j] = "join"]
  /\ UNCHANGED <<kind, reqId, supports_lang, argv_lang, emitted_error, emitted_complete,
                 timed_out, dir>>
  /\ UNCHANGED <<workerVars, pipeVars, regVars, stopVars>>
  /\ UNCHANGED <<dirVars, envVars, blocked>>

\* stdout_task and stderr_task are awaited: dataset.rs:138-143, 358-363
TasksJoined(j) ==
  /\ kind[j] \in {"cleaning", "dataset"} /\ pc[j] = "join"
  /\ OutLoopEnded(j) /\ ErrLoopEnded(j)
  /\ pc' = [pc EXCEPT ![j] = "done"]
  /\ UNCHANGED <<kind, reqId, supports_lang, argv_lang, emitted_error, emitted_complete,
                 timed_out, waitRes, dir>>
  /\ UNCHANGED <<workerVars, pipeVars, regVars, stopVars, sink>>
  /\ UNCHANGED <<dirVars, envVars, blocked>>

\* ------------------------------------------------------------------------
\* generate_dataset (dataset.rs:227-372) and the GENERATION_PID slot
\* ------------------------------------------------------------------------

\* dataset.rs:273-275: GENERATION_PID.store(pid); the two stream tasks are
\* spawned right after (dataset.rs:279-309)
GenStorePid(j) ==
  /\ kind[j] = "dataset" /\ pc[j] = "store"
  /\ GENERATION_PID' = Pid(j)
  /\ pc' = [pc EXCEPT ![j] = "clear"]
  /\ UNCHANGED <<kind, reqId, supports_lang, argv_lang, emitted_error, emitted_complete,
                 timed_out, waitRes, dir>>
  /\ UNCHANGED <<TRAINING_PROCESSES, removals>>
  /\ UNCHANGED <<workerVars, pipeVars, stopVars, sink>>
  /\ UNCHANGED <<dirVars, envVars, blocked>>

\* dataset.rs:311-312: GENERATION_PID.store(0), before child.wait()
GenClearPid(j) ==
  /\ kind[j] = "dataset" /\ pc[j] = "clear"
  /\ GENERATION_PID' = NoPid
  /\ removals' = [removals EXCEPT ![j] = IF GENERATION_PID = Pid(j) THEN @ + 1 ELSE @]
  /\ pc' = [pc EXCEPT ![j] = "wait"]
  /\ UNCHANGED <<kind, reqId, supports_lang, argv_lang, emitted_error, emitted_complete,
                 timed_out, waitRes, dir>>
  /\ UNCHANGED TRAINING_PROCESSES
  /\ UNCHANGED <<workerVars, pipeVars, stopVars, sink>>
  /\ UNCHANGED <<dirVars, envVars, blocked>>

\* child.wait().await returned Ok(status): dataset.rs:314-349.  On success the
\* directory is renamed to the completion timestamp (renamed tells whether
\* std::fs::rename succeeded) and the version is announced; otherwise the
\* directory is removed and "stopped" or "error" is emitted.
GenWaitOk(j, renamed) ==
  /\ kind[j] = "dataset" /\ pc[j] = "wait" /\ wstate[j] = "exited"
  /\ waitRes' = [waitRes EXCEPT ![j] = "ok"]
  /\ LET out == DatasetOutcome(wcode[j])
         final_ts == clock
         version == IF renamed THEN final_ts ELSE output_dir[j]
     IN  CASE out = "version" ->
                /\ renamed => RenamePossible(fs, output_dir[j], final_ts)
                /\ dir' = [dir EXCEPT ![j] = IF renamed THEN "final" ELSE @]
                /\ fs' = IF renamed THEN Rename(fs, output_dir[j], final_ts) ELSE fs
                /\ version_id' = [version_id EXCEPT ![j] = version]
                /\ Emit(j, <<SupEvent("dataset", "version", "none",
                                      IF renamed THEN "final_ts" ELSE "start_ts",
                                      <<version>>, wcode[j])>>)
           [] out = "stopped" ->
                /\ renamed
                /\ RemoveOutputDir(output_dir[j])
                /\ UNCHANGED version_id
                /\ dir' = [dir EXCEPT ![j] = "removed"]
                /\ Emit(j, <<SupEvent("dataset", "stopped", "none", "stopped",
                                      <<>>, wcode[j])>>)
           [] OTHER ->
                /\ renamed
                /\ RemoveOutputDir(output_dir[j])
                /\ UNCHANGED version_id
                /\ dir' = [dir EXCEPT ![j] = "removed"]
                /\ Emit(j, <<SupEvent("dataset", "error", "none",
                                      DatasetErrorMsg(wcode[j]), <<>>, wcode[j])>>)
  /\ pc' = [pc EXCEPT ![j] = "join"]
  /\ UNCHANGED <<clock, output_dir, artifact>>
  /\ UNCHANGED <<kind, reqId, supports_lang, argv_lang, emitted_error, emitted_complete,
                 timed_out>>
  /\ UNCHANGED <<workerVars, pipeVars, regVars, stopVars>>
  /\ UNCHANGED <<envVars, blocked>>

\* child.wait().await returned Err(e): dataset.rs:350-355
GenWaitErr(j) ==
  /\ kind[j] = "dataset" /\ pc[j] = "wait" /\ wstate[j] = "exited"
  /\ waitRes' = [waitRes EXCEPT ![j] = "err"]
  /\ dir' = [dir EXCEPT ![j] = "removed"]
  /\ RemoveOutputDir(output_dir[j])
  /\ UNCHANGED <<clock, output_dir, version_id, artifact>>
  /\ Emit(j, <<SupEvent("dataset", "error", "none", "wait_err", <<>>, 0)>>)
  /\ pc' = [pc EXCEPT ![j] = "join"]
  /\ UNCHANGED <<kind, reqId, supports_lang, argv_lang, emitted_error, emitted_complete,
                 timed_out>>
  /\ UNCHANGED <<workerVars, pipeVars, regVars, stopVars>>
  /\ UNCHANGED <<envVars, blocked>>

\* ------------------------------------------------------------------------
\* start_training (training.rs:144-285) and the TRAINING_PROCESSES registry
\* ------------------------------------------------------------------------

\* training.rs:217-221: map.insert(job_id, pid); the stream tasks follow
TrainInsert(j) ==
  /\ kind[j] = "training" /\ pc[j] = "insert"
  /\ TRAINING_PROCESSES' = [TRAINING_PROCESSES EXCEPT ![j] = Pid(j)]
  /\ pc' = [pc EXCEPT ![j] = "drain"]
  /\ UNCHANGED <<kind, reqId, supports_lang, argv_lang, emitted_error, emitted_complete,
                 timed_out, waitRes, dir>>
  /\ UNCHANGED <<GENERATION_PID, removals>>
  /\ UNCHANGED <<workerVars, pipeVars, stopVars, sink>>
  /\ UNCHANGED <<dirVars, envVars, blocked>>

\* training.rs:257: tokio::join!(stdout_task, stderr_task) returned
TrainDrained(j) ==
  /\ kind[j] = "training" /\ pc[j] = "drain" /\ OutLoopEnded(j) /\ ErrLoopEnded(j)
  /\ pc' = [pc EXCEPT ![j] = "wait"]
  /\ UNCHANGED <<kind, reqId, supports_lang, argv_lang, emitted_error, emitted_complete,
                 timed_out, waitRes, dir>>
  /\ UNCHANGED <<workerVars, pipeVars, regVars, stopVars, sink>>
  /\ UNCHANGED <<dirVars, envVars, blocked>>

\* training.rs:259-265: training-complete carries success: status.success()
TrainWaitOk(j) ==
  /\ kind[j] = "training" /\ pc[j] = "wait" /\ wstate[j] = "exited"
  /\ waitRes' = [waitRes EXCEPT ![j] = "ok"]
  /\ Emit(j, <<SupEvent("training", "complete", "job_id",
                        IF Success(wcode[j]) THEN "success" ELSE "no_success",
                        <<>>, 0)>>)
  /\ pc' = [pc EXCEPT ![j] = "remove"]
  /\ UNCHANGED <<kind, reqId, supports_lang, argv_lang, emitted_error, emitted_complete,
                 timed_out, dir>>
  /\ UNCHANGED <<workerVars, pipeVars, regVars, stopVars>>
  /\ UNCHANGED <<dirVars, envVars, blocked>>

\* training.rs:266-271
TrainWaitErr(j) ==
  /\ kind[j] = "training" /\ pc[j] = "wait" /\ wstate[j] = "exited"
  /\ waitRes' = [waitRes EXCEPT ![j] = "err"]
  /\ Emit(j, <<SupEvent("training", "error", "job_id", "wait_err", <<>>, 0)>>)
  /\ pc' = [pc EXCEPT ![j] = "remove"]
  /\ UNCHANGED <<kind, reqId, supports_lang, argv_lang, emitted_error, emitted_complete,
                 timed_out, dir>>
  /\ UNCHANGED <<workerVars, pipeVars, regVars, stopVars>>
  /\ UNCHANGED <<dirVars, envVars, blocked>>

\* training.rs:274-276: map.remove(&job_id)
TrainRemove(j) ==
  /\ kind[j] = "training" /\ pc[j] = "remove"
  /\ TRAINING_PROCESSES' = [TRAINING_PROCESSES EXCEPT ![j] = NoPid]
  /\ removals' = [removals EXCEPT ![j] =
                    IF TRAINING_PROCESSES[j] # NoPid THEN @ + 1 ELSE @]
  /\ pc' = [pc EXCEPT ![j] = "done"]
  /\ UNCHANGED <<kind, reqId, supports_lang, argv_lang, emitted_error, emitted_complete,
                 timed_out, waitRes, dir>>
  /\ UNCHANGED GENERATION_PID
  /\ UNCHANGED <<workerVars, pipeVars, stopVars, sink>>
  /\ UNCHANGED <<dirVars, envVars, blocked>>

\* ------------------------------------------------------------------------
\* The cancelling commands
\* ------------------------------------------------------------------------

\* libc::kill(pid, SIGTERM) alone
KilledDirectOnly(pid) ==
  /\ kills' = [kills EXCEPT ![pid] = [group |-> @.group, direct |-> @.direct + 1]]
  /\ sigd' = [j \in Jobs |-> sigd[j] \/ (Pid(j) = pid /\ wstate[j] = "running")]

\* libc::kill(-(pid), SIGTERM); libc::kill(pid, SIGTERM): the signal reaches
\* the process with that pid if it is still running (dataset.rs:16-19,
\* training.rs:298-301)
Killed(pid) ==
  /\ kills' = [kills EXCEPT ![pid] = [group |-> @.group + 1, direct |-> @.direct + 1]]
  /\ sigd' = [j \in Jobs |-> sigd[j] \/ (Pid(j) = pid /\ wstate[j] = "running")]

\* The cancelling commands a run issues are those of the job kinds it starts:
\* stop_generation with generate_dataset, stop_training with start_training.
Issues(k) == \E j \in Jobs : kind[j] = k

\* the jobs a cancelling command addresses whose worker is running under a
\* supervising task that has passed its registration step
Supervised(j) == wstate[j] = "running" /\ pc[j] \notin {"store", "insert"}

\* stop_generation, dataset.rs:11-14: swap the slot; "not found" when it held 0
StopGenerationSwap ==
  /\ stopPc = "idle" /\ Issues("dataset")
  /\ stopCmd' = "stop_generation"
  /\ stopJob' = UnknownJob
  /\ stopLive' = (\E j \in Jobs : kind[j] = "dataset" /\ Supervised(j))
  /\ stopPid' = GENERATION_PID
  /\ GENERATION_PID' = NoPid
  /\ removals' = [j \in Jobs |->
                    IF GENERATION_PID = Pid(j) THEN removals[j] + 1 ELSE removals[j]]
  /\ stopPc' = IF GENERATION_PID = NoPid THEN "not_found" ELSE "gen_kill"
  /\ UNCHANGED <<TRAINING_PROCESSES, kills>>
  /\ UNCHANGED <<jobVars, workerVars, pipeVars, sink>>
  /\ UNCHANGED <<dirVars, envVars, blocked>>

\* stop_generation, dataset.rs:15-21: the two kill calls, Ok(())
StopGenerationKill ==
  /\ stopPc = "gen_kill"
  /\ Killed(stopPid)
  /\ stopPc' = "sent"
  /\ UNCHANGED <<stopCmd, stopJob, stopPid, stopLive>>
  /\ UNCHANGED <<wstate, wcode, outOpen, errOpen, nOut, nErr>>
  /\ UNCHANGED <<jobVars, pipeVars, regVars, sink>>
  /\ UNCHANGED <<dirVars, envVars, blocked>>

\* training.rs:293-294 with the job id ignored: any entry of the map is taken
StopTrainingLookupAnyEntry(id) ==
  /\ stopPc = "idle" /\ Issues("training")
  /\ stopCmd' = "stop_training"
  /\ stopJob' = id
  /\ stopLive' = (id \in Jobs /\ Supervised(id))
  /\ LET held == {i \in JobIds : TRAINING_PROCESSES[i] # NoPid}
     IN  IF held = {}
         THEN stopPid' = NoPid /\ stopPc' = "not_found"
         ELSE stopPid' = TRAINING_PROCESSES[CHOOSE i \in held : TRUE]
                /\ stopPc' = "train_kill"
  /\ UNCHANGED kills
  /\ UNCHANGED <<jobVars, workerVars, pipeVars, regVars, sink>>
  /\ UNCHANGED <<dirVars, envVars, blocked>>

\* stop_training, training.rs:292-296, 307: the entry is looked up under the
\* lock; "not found" when there is none
StopTrainingLookup(id) ==
  /\ stopPc = "idle" /\ Issues("training")
  /\ stopCmd' = "stop_training"
  /\ stopJob' = id
  /\ stopLive' = (id \in Jobs /\ Supervised(id))
  /\ stopPid' = TRAINING_PROCESSES[id]
  /\ stopPc' = IF TRAINING_PROCESSES[id] = NoPid THEN "not_found" ELSE "train_kill"
  /\ UNCHANGED kills
  /\ UNCHANGED <<jobVars, workerVars, pipeVars, regVars, sink>>
  /\ UNCHANGED <<dirVars, envVars, blocked>>

\* stop_training, training.rs:298-301: the two kill calls
StopTrainingKill ==
  /\ stopPc = "train_kill"
  /\ Killed(stopPid)
  /\ stopPc' = "train_remove"
  /\ UNCHANGED <<stopCmd, stopJob, stopPid, stopLive>>
  /\ UNCHANGED <<wstate, wcode, outOpen, errOpen, nOut, nErr>>
  /\ UNCHANGED <<jobVars, pipeVars, regVars, sink>>
  /\ UNCHANGED <<dirVars, envVars, blocked>>

\* stop_training, training.rs:302-305: map.remove(&job_id), Ok(())
StopTrainingRemove ==
  /\ stopPc = "train_remove"
  /\ TRAINING_PROCESSES' = [TRAINING_PROCESSES EXCEPT ![stopJob] = NoPid]
  /\ removals' = [j \in Jobs |->
                    IF j = stopJob /\ TRAINING_PROCESSES[j] # NoPid
                    THEN removals[j] + 1 ELSE removals[j]]
  /\ stopPc' = "sent"
  /\ UNCHANGED <<stopCmd, stopJob, stopPid, stopLive, kills>>
  /\ UNCHANGED GENERATION_PID
  /\ UNCHANGED <<jobVars, workerVars, pipeVars, sink>>
  /\ UNCHANGED <<dirVars, envVars, blocked>>

\* The command returns to its caller: Err("... not found ...") from
\* stopPc = "not_found" (dataset.rs:13, training.rs:307), Ok(()) from
\* stopPc = "sent" (dataset.rs:21, training.rs:305).
StopReturn ==
  /\ stopPc \in {"not_found", "sent"}
  /\ stopPc' = "idle"
  /\ stopCmd' = "none"
  /\ stopJob' = UnknownJob
  /\ stopPid' = NoPid
  /\ stopLive' = FALSE
  /\ UNCHANGED kills
  /\ UNCHANGED <<jobVars, workerVars, pipeVars, regVars, sink>>
  /\ UNCHANGED <<dirVars, envVars, blocked>>

\* ------------------------------------------------------------------------
\* The specification
\* ------------------------------------------------------------------------

\* the dataset worker (or, the spawned process having exited, a descendant
\* of it that lives on) writes train.jsonl, its primary artifact, into the
\* directory it was given as --output, once; it replaces a train.jsonl that
\* is there
WorkerWriteArtifact(j) ==
  /\ kind[j] = "dataset" /\ blocked[j] = "none"
  /\ wstate[j] = "running" \/ (wstate[j] = "exited" /\ (outOpen[j] \/ errOpen[j]))
  /\ fs[output_dir[j]].exists /\ ~artifact[j]
  /\ fs' = [fs EXCEPT ![output_dir[j]].train = TRUE]
  /\ artifact' = [artifact EXCEPT ![j] = TRUE]
  /\ UNCHANGED <<clock, output_dir, version_id>>
  /\ UNCHANGED <<jobVars, workerVars, pipeVars, regVars, stopVars, sink>>
  /\ UNCHANGED <<envVars, blocked>>

\* A second passes before a step that reads the clock: the finalizing step
\* of a dataset job whose worker has exited (dataset.rs:318), or a call of
\* generate_dataset that follows another one (dataset.rs:197).
Tick ==
  /\ clock < MaxClock
  /\ \E j \in Jobs :
       /\ kind[j] = "dataset"
       /\ \/ pc[j] = "wait" /\ wstate[j] = "exited"
          \/ pc[j] = "idle" /\ \E i \in Jobs : output_dir[i] # NoName
  /\ clock' = clock + 1
  /\ UNCHANGED <<output_dir, version_id, fs, artifact>>
  /\ UNCHANGED <<jobVars, workerVars, pipeVars, regVars, stopVars, sink>>
  /\ UNCHANGED <<envVars, blocked>>

\* write(2) on a full pipe: the writer sleeps in the write until the reader
\* makes room or is dropped, and does nothing else meanwhile
WorkerBlocks(j, stream) ==
  /\ wstate[j] # "none" /\ blocked[j] = "none" /\ HasLinesLeft(j)
  /\ \/ /\ stream = "out" /\ outOpen[j] /\ ~outDone[j]
        /\ nOut[j] < MaxOut /\ Len(outPipe[j]) >= PipeMin
     \/ /\ stream = "err" /\ errOpen[j] /\ ~errDone[j]
        /\ nErr[j] < MaxErr /\ Len(errPipe[j]) >= PipeMin
  /\ blocked' = [blocked EXCEPT ![j] = stream]
  /\ UNCHANGED <<jobVars, workerVars, pipeVars, regVars, stopVars, sink>>
  /\ UNCHANGED <<dirVars, envVars>>

WorkerStep ==
  \/ \E j \in Jobs : \E stream \in {"out", "err"} : WorkerBlocks(j, stream)
  \/ \E j \in Jobs : WorkerWriteArtifact(j)
  \/ Tick
  \/ \E j \in Jobs : \E line \in OutLinesOf(kind[j]) : WorkerWriteOut(j, line)
  \/ \E j \in Jobs : \E line \in ErrLines : WorkerWriteErr(j, line)
  \/ \E j \in Jobs : WorkerCloseOut(j)
  \/ \E j \in Jobs : \E code \in ExitCodes : \E orphans \in BOOLEAN :
       WorkerExit(j, code, orphans)
  \/ \E j \in Jobs : DescendantExits(j)

TaskStep ==
  \/ \E j \in Jobs : StartRejected(j)
  \/ \E j \in Jobs : StartOk(j)
  \/ \E j \in Jobs : SpawnOk(j)
  \/ \E j \in Jobs : SpawnFail(j)
  \/ \E j \in Jobs : ReadStdout(j)
  \/ \E j \in Jobs : ReadStderr(j)
  \/ \E j \in Jobs : ExportEof(j)
  \/ \E j \in Jobs : ExportTimeout(j)
  \/ \E j \in Jobs : ExportTimedOut(j)
  \/ \E j \in Jobs : ExportWaitOk(j)
  \/ \E j \in Jobs : ExportJoin(j)
  \/ \E j \in Jobs : ExportWaitErr(j)
  \/ \E j \in Jobs : InferenceEof(j)
  \/ \E j \in Jobs : InferenceWaitOk(j)
  \/ \E j \in Jobs : InferenceJoin(j)
  \/ \E j \in Jobs : InferenceWaitErr(j)
  \/ \E j \in Jobs : CleaningWaitOk(j)
  \/ \E j \in Jobs : CleaningWaitErr(j)
  \/ \E j \in Jobs : TasksJoined(j)
  \/ \E j \in Jobs : GenStorePid(j)
  \/ \E j \in Jobs : GenClearPid(j)
  \/ \E j \in Jobs : \E renamed \in BOOLEAN : GenWaitOk(j, renamed)
  \/ \E j \in Jobs : GenWaitErr(j)
  \/ \E j \in Jobs : TrainInsert(j)
  \/ \E j \in Jobs : TrainDrained(j)
  \/ \E j \in Jobs : TrainWaitOk(j)
  \/ \E j \in Jobs : TrainWaitErr(j)
  \/ \E j \in Jobs : TrainRemove(j)

StopStep ==
  \/ StopGenerationSwap
  \/ StopGenerationKill
  \/ \E id \in JobIds : StopTrainingLookup(id)
  \/ StopTrainingKill
  \/ StopTrainingRemove
  \/ StopReturn

Next == WorkerStep \/ TaskStep \/ StopStep

Spec == Init /\ [][Next]_vars

\* ------------------------------------------------------------------------
\* run_python_and_emit supervising a worker that never exits by itself
\* ------------------------------------------------------------------------

InitExport == Init /\ kind[1] = "export"

\* the worker writes, closes its stdout, but does not exit
HangingWorkerStep ==
  \/ \E j \in Jobs : \E line \in OutLinesOf(kind[j]) : WorkerWriteOut(j, line)
  \/ \E j \in Jobs : \E line \in ErrLines : WorkerWriteErr(j, line)
  \/ \E j \in Jobs : WorkerCloseOut(j)

ExportTaskStep ==
  \/ \E j \in Jobs : StartRejected(j)
  \/ \E j \in Jobs : StartOk(j)
  \/ \E j \in Jobs : SpawnOk(j)
  \/ \E j \in Jobs : SpawnFail(j)
  \/ \E j \in Jobs : ReadStdout(j)
  \/ \E j \in Jobs : ReadStderr(j)
  \/ \E j \in Jobs : ExportEof(j)
  \/ \E j \in Jobs : ExportTimeout(j)
  \/ \E j \in Jobs : ExportTimedOut(j)

NextHang == HangingWorkerStep \/ ExportTaskStep

\* The tokio runtime runs every task that can make progress, and the timer of
\* tokio::time::timeout fires while the future it wraps is pending.
SpecHang == InitExport /\ [][NextHang]_vars /\ WF_vars(ExportTaskStep)

\* ------------------------------------------------------------------------
\* run_python_and_emit supervising a worker that writes several stderr lines
\* and exits before the deadline
\* ------------------------------------------------------------------------

NoisyWorkerStep ==
  \/ \E j \in Jobs : \E line \in OutLinesOf(kind[j]) : WorkerWriteOut(j, line)
  \/ \E j \in Jobs : \E line \in ErrLines : WorkerWritesErr(j, line, MaxStderr)
  \/ \E j \in Jobs : \E code \in ExitCodes : \E orphans \in BOOLEAN :
       WorkerExit(j, code, orphans)
  \/ \E j \in Jobs : DescendantExits(j)

ExportToEndStep ==
  \/ \E j \in Jobs : StartOk(j)
  \/ \E j \in Jobs : SpawnOk(j)
  \/ \E j \in Jobs : ReadStdout(j)
  \/ \E j \in Jobs : ReadStderr(j)
  \/ \E j \in Jobs : ExportEof(j)
  \/ \E j \in Jobs : ExportWaitOk(j)
  \/ \E j \in Jobs : ExportJoin(j)

NextNoisy == NoisyWorkerStep \/ ExportToEndStep

SpecNoisy == InitExport /\ [][NextNoisy]_vars

\* ------------------------------------------------------------------------
\* Draining: a worker of any kind that writes to its two pipes, blocks when
\* one is full, and exits by itself before any deadline; the supervising
\* task takes every step it can.
\* ------------------------------------------------------------------------

DrainWorkerStep ==
  \/ \E j \in Jobs : \E stream \in {"out", "err"} : WorkerBlocks(j, stream)
  \/ \E j \in Jobs : \E line \in OutLinesOf(kind[j]) : WorkerWriteOut(j, line)
  \/ \E j \in Jobs : \E line \in ErrLines : WorkerWriteErr(j, line)
  \/ \E j \in Jobs : \E code \in {0, 1} : \E orphans \in BOOLEAN :
       WorkerExit(j, code, orphans)
  \/ \E j \in Jobs : DescendantExits(j)

DrainTaskStep ==
  \/ \E j \in Jobs : StartOk(j)
  \/ \E j \in Jobs : SpawnOk(j)
  \/ \E j \in Jobs : ReadStdout(j)
  \/ \E j \in Jobs : ReadStderr(j)
  \/ \E j \in Jobs : ExportEof(j)
  \/ \E j \in Jobs : ExportWaitOk(j)
  \/ \E j \in Jobs : ExportJoin(j)
  \/ \E j \in Jobs : InferenceEof(j)
  \/ \E j \in Jobs : InferenceWaitOk(j)
  \/ \E j \in Jobs : InferenceJoin(j)
  \/ \E j \in Jobs : CleaningWaitOk(j)
  \/ \E j \in Jobs : TasksJoined(j)
  \/ \E j \in Jobs : GenStorePid(j)
  \/ \E j \in Jobs : GenClearPid(j)
  \/ \E j \in Jobs : \E renamed \in BOOLEAN : GenWaitOk(j, renamed)
  \/ \E j \in Jobs : TrainInsert(j)
  \/ \E j \in Jobs : TrainDrained(j)
  \/ \E j \in Jobs : TrainWaitOk(j)
  \/ \E j \in Jobs : TrainRemove(j)

NextDrain == DrainWorkerStep \/ DrainTaskStep

\* The tokio runtime runs every task that can make progress, and the OS runs
\* a worker that is not blocked.
SpecDrain ==
  Init /\ [][NextDrain]_vars /\ WF_vars(DrainTaskStep) /\ WF_vars(DrainWorkerStep)

\* ------------------------------------------------------------------------
\* Calls of generate_dataset for one project in every job slot, with workers
\* that write their artifact and exit, leaving no descendant behind.
\* ------------------------------------------------------------------------

InitDirs ==
  /\ kind = [j \in Jobs |-> "dataset"]
  /\ InitSupervision /\ EnvAtRest

NextDirs ==
  \/ Tick
  \/ \E j \in Jobs : StartRejected(j)
  \/ \E j \in Jobs : StartOk(j)
  \/ \E j \in Jobs : SpawnOk(j)
  \/ \E j \in Jobs : SpawnFail(j)
  \/ \E j \in Jobs : GenStorePid(j)
  \/ \E j \in Jobs : GenClearPid(j)
  \/ \E j \in Jobs : WorkerWriteArtifact(j)
  \/ \E j \in Jobs : \E code \in ExitCodes : WorkerExit(j, code, FALSE)
  \/ \E j \in Jobs : \E renamed \in BOOLEAN : GenWaitOk(j, renamed)
  \/ \E j \in Jobs : GenWaitErr(j)
  \/ \E j \in Jobs : TasksJoined(j)

SpecDirs == InitDirs /\ [][NextDirs]_vars

\* ------------------------------------------------------------------------
\* The reconciler on its own: every state of the daemons, the shell and the
\* configuration, and one call of resolve_ollama_models_dir.
\* ------------------------------------------------------------------------

InitResolve ==
  /\ kind \in Plans /\ kind[1] = "export"
  /\ InitSupervision
  /\ pgrepOk \in BOOLEAN
  /\ daemons \in DaemonLists
  /\ NoOldDaemons
  /\ shellModels \in ShellValues
  /\ cfgModels \in ConfigValues
  /\ resolved = "unset"
  /\ RestartAtRest /\ ListAtRest /\ BatchAtRest

\* environment.rs:422-433, called by export.rs:172,326 and training.rs:411,557
Resolve ==
  /\ resolved = "unset"
  /\ resolved' = resolve_ollama_models_dir
  /\ UNCHANGED <<pgrepOk, daemons, shellModels, cfgModels, restartVars>>
  /\ UNCHANGED <<asideVars, cleaned>>
  /\ UNCHANGED <<jobVars, workerVars, pipeVars, regVars, stopVars, sink, dirVars>>
  /\ UNCHANGED blocked

NextResolve == Resolve

SpecResolve == InitResolve /\ [][NextResolve]_vars

\* ------------------------------------------------------------------------
\* start_training choosing the batch size, for every request and every pair
\* of line counts
\* ------------------------------------------------------------------------

\* training.rs:83  std::cmp::min
Min(a, b) == IF a <= b THEN a ELSE b

\* training.rs:81-88: min_dataset and the clamped batch_size
ClampBatchSize(requested, train, valid) ==
  LET min_dataset == Min(train, valid)
  IN  IF min_dataset > 0 /\ requested > min_dataset THEN min_dataset ELSE requested

InitBatch ==
  /\ kind \in Plans /\ kind[1] = "training"
  /\ InitSupervision /\ RestartAtRest /\ ListAtRest
  /\ pgrepOk = FALSE /\ daemons = <<>> /\ NoOldDaemons
  /\ shellModels = ShellUnset /\ cfgModels = NoPath /\ resolved = "unset"
  /\ batch \in [requested : 0..MaxBatch, train : 0..MaxLines, valid : 0..MaxLines,
                 passed : {0}, done : {FALSE}]

\* training.rs:75-88, 163-164: the line counts are taken and the clamped
\* size goes into the arguments and into training_meta.json
ChooseBatch ==
  /\ ~batch.done
  /\ batch' = [batch EXCEPT !.done = TRUE,
                            !.passed = ClampBatchSize(batch.requested, batch.train, batch.valid)]
  /\ UNCHANGED <<pathCmd, listVars, cleaned>>
  /\ UNCHANGED <<pgrepOk, daemons, shellModels, cfgModels, resolved, restartVars>>
  /\ UNCHANGED <<jobVars, workerVars, pipeVars, regVars, stopVars, sink, dirVars, blocked>>

NextBatch == ChooseBatch

SpecBatch == InitBatch /\ [][NextBatch]_vars

\* ------------------------------------------------------------------------
\* list_dataset_versions on every content of a project's dataset root
\* ------------------------------------------------------------------------

\* what the process may do with the dataset root: everything; stat it and
\* what is below it, but not read it (read_dir fails); or not stat what is
\* below it, or the root itself (exists() and is_dir() give false)
RootAccess == {"ok", "no_read", "no_search"}

DirStates ==
  {AbsentDir} \cup {[exists |-> TRUE, meta |-> m, train |-> t] : m, t \in BOOLEAN}

InitListing ==
  /\ kind \in Plans /\ kind[1] = "dataset"
  /\ InitSupervision /\ RestartAtRest /\ BatchAtRest
  /\ pgrepOk = FALSE /\ daemons = <<>> /\ NoOldDaemons
  /\ shellModels = ShellUnset /\ cfgModels = NoPath /\ resolved = "unset"
  /\ fs \in [Names -> DirStates]
  /\ legacy_flat \in BOOLEAN
  /\ meta_valid \in [Names -> BOOLEAN]
  /\ \A n \in Names : ~fs[n].meta => meta_valid[n]
  /\ root_access \in RootAccess
  /\ dir_access \in [Names -> BOOLEAN]
  /\ \A n \in Names : ~fs[n].exists => dir_access[n]
  /\ listing = <<>>
  /\ listed = FALSE
  /\ list_result = "none"

\* dataset.rs:394-500: Ok(vec![]) when dataset_root.exists() is false, the
\* Err of read_dir through `?`, and otherwise Ok of the sorted entries
ListVersions ==
  /\ ~listed
  /\ listed' = TRUE
  /\ IF root_access = "no_read"
     THEN /\ list_result' = "Err"
          /\ listing' = <<>>
     ELSE /\ list_result' = "Ok"
          /\ listing' = DatasetVersionInfos
  /\ UNCHANGED <<legacy_flat, meta_valid, root_access, dir_access, pathCmd, batch,
                 cleaned>>
  /\ UNCHANGED <<pgrepOk, daemons, shellModels, cfgModels, resolved, restartVars>>
  /\ UNCHANGED <<jobVars, workerVars, pipeVars, regVars, stopVars, sink, dirVars, blocked>>

NextListing == ListVersions

SpecListing == InitListing /\ [][NextListing]_vars

\* ------------------------------------------------------------------------
\* export_to_ollama aligning the daemon with the export target
\* (export.rs:315-336) through apply_ollama_models_dir_and_restart
\* (environment.rs:263-335), while `ollama serve` processes end and start
\* ------------------------------------------------------------------------

\* what the command leaves alone while it deals with the daemon
RestartFrame ==
  /\ UNCHANGED <<kind, reqId, supports_lang, argv_lang, emitted_error,
                 emitted_complete, timed_out, waitRes, dir>>
  /\ UNCHANGED <<workerVars, pipeVars, regVars, stopVars, dirVars, blocked>>
  /\ UNCHANGED <<pgrepOk, shellModels, cfgModels, pathCmd, listVars, batch, cleaned>>

\* export.rs:318-325: the target is chosen from the configuration as it is
\* saved now, and the warning about a fallback is emitted
ExportPrepare(j, writable) ==
  /\ kind[j] = "export" /\ pc[j] = "idle" /\ rpc = "idle"
  /\ (cfgModels = NoPath => writable)
  /\ LET target == resolve_ollama_models_dir_for_export(writable)
     IN  /\ ollama_models_dir' = target.dir
         /\ Emit(j, IF target.fallback
                    THEN <<SupEvent("export", "path_warning", "project_id",
                                    "path_fallback", <<>>, 0)>>
                    ELSE <<>>)
  /\ pc' = [pc EXCEPT ![j] = "resolve"]
  /\ UNCHANGED <<daemons, resolved, launchd, old_daemons, rounds, applied, rpc, trail>>
  /\ RestartFrame

\* export.rs:326-335: the effective directory is resolved, pgrep, ps and zsh
\* having run and the configuration being loaded a second time
\* (environment.rs:429), and compared with the target
ExportResolve(j) ==
  /\ kind[j] = "export" /\ pc[j] = "resolve"
  /\ LET current_effective == resolve_ollama_models_dir
     IN  /\ resolved' = current_effective
         /\ IF current_effective # ollama_models_dir
            THEN /\ pc' = [pc EXCEPT ![j] = "reconcile"]
                 /\ applied' = ApplyArg(ollama_models_dir)
                 /\ rpc' = "update"
            ELSE /\ pc' = [pc EXCEPT ![j] = "spawn"]
                 /\ UNCHANGED <<applied, rpc>>
  /\ UNCHANGED <<daemons, launchd, old_daemons, rounds, trail, ollama_models_dir, sink>>
  /\ RestartFrame

\* environment.rs:495-510: fix_ollama_models_path applies the configured
\* directory (Err at once when none is configured), reset_ollama_models_path
\* applies None
PathCommand(name) ==
  /\ rpc = "idle" /\ pathCmd.name = "none"
  /\ \A j \in Jobs : pc[j] = "idle"
  /\ IF name = "fix" /\ config_ollama_models_dir = NoPath
     THEN /\ pathCmd' = [name |-> name, result |-> "err"]
          /\ UNCHANGED <<applied, rpc>>
     ELSE /\ pathCmd' = [name |-> name, result |-> "pending"]
          /\ applied' = IF name = "fix" THEN config_ollama_models_dir ELSE NoPath
          /\ rpc' = "update"
  /\ UNCHANGED <<daemons, resolved, launchd, old_daemons, rounds, trail,
                 ollama_models_dir, pc, sink>>
  /\ UNCHANGED <<kind, reqId, supports_lang, argv_lang, emitted_error,
                 emitted_complete, timed_out, waitRes, dir>>
  /\ UNCHANGED <<workerVars, pipeVars, regVars, stopVars, dirVars, blocked>>
  /\ UNCHANGED <<pgrepOk, shellModels, cfgModels, listVars, batch, cleaned>>

\* environment.rs:499-500, 508-509: `?` returns the error of the call,
\* Ok(path) follows its success
PathCommandReturns ==
  /\ pathCmd.result = "pending" /\ rpc \in {"ok", "failed"}
  /\ pathCmd' = [pathCmd EXCEPT !.result = IF rpc = "ok" THEN "ok" ELSE "err"]
  /\ UNCHANGED <<daemons, resolved, restartVars, pc, sink>>
  /\ UNCHANGED <<kind, reqId, supports_lang, argv_lang, emitted_error,
                 emitted_complete, timed_out, waitRes, dir>>
  /\ UNCHANGED <<workerVars, pipeVars, regVars, stopVars, dirVars, blocked>>
  /\ UNCHANGED <<pgrepOk, shellModels, cfgModels, listVars, batch, cleaned>>

\* a launchctl failure that is ignored
LaunchctlUpdateUnchecked(ok) ==
  /\ rpc = "update"
  /\ IF ok
     THEN /\ launchd' = applied
          /\ old_daemons' = [i \in 1..Len(daemons) |-> TRUE]
          /\ trail' = Append(trail, LaunchctlVerb(applied))
     ELSE UNCHANGED <<launchd, old_daemons, trail>>
  /\ rpc' = "quit"
  /\ UNCHANGED <<daemons, resolved, rounds, applied, ollama_models_dir, pc, sink>>
  /\ RestartFrame

\* environment.rs:263-280: launchctl setenv / unsetenv; a failure returns Err
LaunchctlUpdate(ok) ==
  /\ rpc = "update"
  /\ IF ok
     THEN /\ launchd' = applied
          /\ old_daemons' = [i \in 1..Len(daemons) |-> TRUE]
          /\ trail' = Append(trail, LaunchctlVerb(applied))
          /\ rpc' = "quit"
     ELSE /\ rpc' = "failed"
          /\ UNCHANGED <<launchd, old_daemons, trail>>
  /\ UNCHANGED <<daemons, resolved, rounds, applied, ollama_models_dir, pc, sink>>
  /\ RestartFrame

\* environment.rs:284-287: osascript -e 'quit app "Ollama"', result ignored
RestartQuit ==
  /\ rpc = "quit"
  /\ rpc' = "pkill"
  /\ trail' = Append(trail, "quit")
  /\ UNCHANGED <<daemons, resolved, launchd, old_daemons, rounds, applied,
                 ollama_models_dir, pc, sink>>
  /\ RestartFrame

\* environment.rs:291-293: pkill -f "ollama serve", result ignored
RestartPkill ==
  /\ rpc = "pkill"
  /\ rpc' = "gone"
  /\ rounds' = 0
  /\ trail' = Append(trail, "pkill")
  /\ UNCHANGED <<daemons, resolved, launchd, old_daemons, applied, ollama_models_dir,
                 pc, sink>>
  /\ RestartFrame

\* a loop that waits for a daemon until one is listed, whatever time passes
PollBackUnbounded ==
  /\ rpc = "back"
  /\ IF running_ollama_daemon_pids # <<>>
     THEN /\ rpc' = "ok"
          /\ rounds' = 0
          /\ trail' = Append(trail, "wait_back")
     ELSE UNCHANGED <<rpc, rounds, trail>>
  /\ UNCHANGED <<daemons, resolved, launchd, old_daemons, applied, ollama_models_dir,
                 pc, sink>>
  /\ RestartFrame

\* environment.rs:296-302: one turn of the loop: sleep, list the daemons,
\* leave when none is listed or when the deadline has passed
PollGone ==
  /\ rpc = "gone"
  /\ IF running_ollama_daemon_pids = <<>> \/ rounds + 1 >= GoneRounds
     THEN /\ rpc' = "open"
          /\ rounds' = 0
          /\ trail' = Append(trail, "wait_gone")
     ELSE /\ rounds' = rounds + 1
          /\ UNCHANGED <<rpc, trail>>
  /\ UNCHANGED <<daemons, resolved, launchd, old_daemons, applied, ollama_models_dir,
                 pc, sink>>
  /\ RestartFrame

\* environment.rs:305-314: open -a Ollama; a failure returns Err
RestartOpen(ok) ==
  /\ rpc = "open"
  /\ IF ok
     THEN /\ rpc' = "back"
          /\ rounds' = 0
          /\ trail' = Append(trail, "open")
     ELSE /\ rpc' = "failed"
          /\ UNCHANGED <<rounds, trail>>
  /\ UNCHANGED <<daemons, resolved, launchd, old_daemons, applied, ollama_models_dir,
                 pc, sink>>
  /\ RestartFrame

\* environment.rs:317-325: one turn of the loop: sleep, list the daemons,
\* leave when one is listed or when the deadline has passed; then Ok(())
PollBack ==
  /\ rpc = "back"
  /\ IF running_ollama_daemon_pids # <<>> \/ rounds + 1 >= BackRounds
     THEN /\ rpc' = "ok"
          /\ rounds' = 0
          /\ trail' = Append(trail, "wait_back")
     ELSE /\ rounds' = rounds + 1
          /\ UNCHANGED <<rpc, trail>>
  /\ UNCHANGED <<daemons, resolved, launchd, old_daemons, applied, ollama_models_dir,
                 pc, sink>>
  /\ RestartFrame

\* export.rs:329-334: the call returned Ok, the command goes on to
\* tokio::spawn
ExportReconciled(j) ==
  /\ pc[j] = "reconcile" /\ rpc = "ok"
  /\ pc' = [pc EXCEPT ![j] = "spawn"]
  /\ UNCHANGED <<daemons, resolved, restartVars, sink>>
  /\ RestartFrame

\* export.rs:329-334: map_err(...)? returns the error of the call
ExportReconcileFailed(j) ==
  /\ pc[j] = "reconcile" /\ rpc = "failed"
  /\ pc' = [pc EXCEPT ![j] = "refused"]
  /\ UNCHANGED <<daemons, resolved, restartVars, sink>>
  /\ RestartFrame

\* an `ollama serve` process ends: of itself, quit by its application or
\* killed, at any moment, and pgrep lists it no more
DaemonExits(i) ==
  /\ i \in 1..Len(daemons)
  /\ daemons' = SubSeq(daemons, 1, i - 1) \o SubSeq(daemons, i + 1, Len(daemons))
  /\ old_daemons' = SubSeq(old_daemons, 1, i - 1)
                       \o SubSeq(old_daemons, i + 1, Len(old_daemons))
  /\ UNCHANGED <<resolved, launchd, rpc, rounds, applied, trail, ollama_models_dir,
                 pc, sink>>
  /\ RestartFrame

\* the command line a daemon started under the current launchctl value shows
FreshCmd == IF launchd = NoPath THEN <<CmdToken>> ELSE <<CmdToken, EnvToken(launchd)>>

\* what ps gives for a daemon of these runs: ps fails for it; the
\* application started it with the launchctl environment of the moment it
\* was itself launched in, unset or a configured directory; or it was
\* started elsewhere with a directory of its own.  One command line stands
\* for each thing ollama_models_from_daemon_pid (environment.rs:375-389) can
\* read from a line, nothing or a directory, every shape of line being
\* read in the runs of resolve_ollama_models_dir on its own.
StartedDaemons ==
  {PsFailed, [ok |-> TRUE, cmd |-> <<CmdToken>>],
   [ok |-> TRUE, cmd |-> <<CmdToken, EnvToken("A1")>>]}
    \cup {[ok |-> TRUE, cmd |-> <<CmdToken, EnvToken(v)>>] :
            v \in ConfigValues \ {NoPath}}

\* an `ollama serve` process starts, at any moment.  pgrep lists the
\* processes by pid, and the pid of a new process can be lower or higher
\* than that of any listed one: it becomes the k-th of the list, for any k.
DaemonStarts(d, k) ==
  /\ Len(daemons) < MaxDaemons
  /\ k \in 1..(Len(daemons) + 1)
  /\ daemons' = SubSeq(daemons, 1, k - 1) \o <<d>> \o SubSeq(daemons, k, Len(daemons))
  /\ old_daemons' = SubSeq(old_daemons, 1, k - 1) \o <<FALSE>>
                       \o SubSeq(old_daemons, k, Len(old_daemons))
  /\ UNCHANGED <<resolved, launchd, rpc, rounds, applied, trail, ollama_models_dir,
                 pc, sink>>
  /\ RestartFrame

InitReconcile ==
  /\ kind \in Plans /\ kind[1] = "export"
  /\ InitSupervision
  /\ pgrepOk \in BOOLEAN
  /\ daemons \in UNION {[1..n -> StartedDaemons] : n \in 0..MaxDaemons}
  /\ NoOldDaemons
  /\ shellModels \in ShellValues
  /\ cfgModels \in ConfigValues
  /\ resolved = "unset"
  /\ RestartAtRest /\ ListAtRest /\ BatchAtRest

\* what save_config (config.rs:43-50) can do to config.json: write it;
\* fail before std::fs::write opened it; or fail after the open, which
\* truncated the file
SaveOutcomes == {"saved", "unopened", "truncated"}

\* config.rs:117-126  set_model_source_path("ollama", path): the saved
\* configuration gets the path (None: no custom directory) when save_config
\* succeeds.  A config.json that was truncated does not parse, and
\* load_config (config.rs:32-42) gives the default for it: no directory.
SetModelSourcePath(path, saved) ==
  /\ cfgModels' = CASE saved = "saved" -> path
                     [] saved = "unopened" -> cfgModels
                     [] saved = "truncated" -> NoPath
  /\ UNCHANGED <<pgrepOk, daemons, shellModels, resolved, restartVars>>
  /\ UNCHANGED <<asideVars, cleaned>>
  /\ UNCHANGED <<jobVars, workerVars, pipeVars, regVars, stopVars, sink, dirVars>>
  /\ UNCHANGED blocked

ConfigStep ==
  \E path \in ConfigValues : \E saved \in SaveOutcomes : SetModelSourcePath(path, saved)

ReconcileStep ==
  \/ \E j \in Jobs : \E writable \in BOOLEAN : ExportPrepare(j, writable)
  \/ \E j \in Jobs : ExportResolve(j)
  \/ \E ok \in BOOLEAN : LaunchctlUpdate(ok)
  \/ RestartQuit
  \/ RestartPkill
  \/ PollGone
  \/ \E ok \in BOOLEAN : RestartOpen(ok)
  \/ PollBack
  \/ \E j \in Jobs : ExportReconciled(j)
  \/ \E j \in Jobs : ExportReconcileFailed(j)
  \/ \E name \in {"fix", "reset"} : PathCommand(name)
  \/ PathCommandReturns

DaemonStep ==
  \/ \E i \in 1..MaxDaemons : DaemonExits(i)
  \/ \E d \in StartedDaemons : \E k \in 1..MaxDaemons : DaemonStarts(d, k)

NextReconcile ==
  \/ ReconcileStep
  \/ DaemonStep
  \/ ConfigStep
  \/ \E j \in Jobs : StartRejected(j)
  \/ \E j \in Jobs : SpawnOk(j)
  \/ \E j \in Jobs : SpawnFail(j)

\* The command runs on its own thread: every external command it waits for
\* returns, and every sleep ends.
SpecReconcile == InitReconcile /\ [][NextReconcile]_vars /\ WF_vars(ReconcileStep)

\* ------------------------------------------------------------------------
\* Properties
\* ------------------------------------------------------------------------

TerminalTypes == {"complete", "error", "version", "stopped"}

\* every line the worker has written to stdout so far
Printed(j) == outRead[j] \o outPipe[j]

Has(seq, x) == \E i \in 1..Len(seq) : seq[i] = x

\* the notifications the supervisor emitted itself, of one type
SupCount(j, type) ==
  Len(SelectSeq(sink[j], LAMBDA e : e.src = "sup" /\ e.type = type))

TerminalCount(j) == Len(SelectSeq(sink[j], LAMBDA e : e.type \in TerminalTypes))

HasEntry(j) ==
  CASE kind[j] = "dataset" -> GENERATION_PID = Pid(j)
    [] kind[j] = "training" -> TRAINING_PROCESSES[j] # NoPid
    [] OTHER -> FALSE

\* C1: in cleaning, dataset generation, export and inference, a worker that
\* exits with status 0 without having printed `complete` or `error` is
\* Failed: an error notification is emitted, and no version is finalized or
\* announced.
C1_SilentExitIsFailed ==
  \A j \in Jobs :
    (/\ kind[j] \in {"cleaning", "dataset", "export", "inference"}
     /\ pc[j] = "done" /\ waitRes[j] = "ok" /\ Success(wcode[j]) /\ ~timed_out[j]
     /\ ~Has(Printed(j), LineComplete) /\ ~Has(Printed(j), LineError))
    => /\ SupCount(j, "error") >= 1
       /\ SupCount(j, "version") = 0
       /\ dir[j] # "final"

\* C2: every started job delivers exactly one terminal notification
\* (complete / error / version / stopped, forwarded or emitted by the
\* supervisor) over its whole life.
C2_ExactlyOneTerminal ==
  \A j \in Jobs :
    /\ TerminalCount(j) <= 1
    /\ (pc[j] = "done" => TerminalCount(j) = 1)

\* C3: an export worker that never exits is eventually timed out: killed,
\* with the timeout error emitted.
C3_HangingWorkerTimesOut ==
  \A j \in Jobs :
    (wstate[j] = "running") ~> (timed_out[j] /\ wstate[j] = "exited" /\ pc[j] = "done")

\* C4: a cancelling command returns "not found" only when the job is unknown
\* or already terminal, never for a job whose worker is running under its
\* supervising task.
C4_NotFoundOnlyWhenNotRunning ==
  stopPc = "not_found" => ~stopLive

\* C5: the registry holds an entry for a job exactly when its worker has been
\* spawned and has not exited, and the entry is removed exactly once.
C5_EntryIffRunning ==
  \A j \in Jobs :
    kind[j] \in {"dataset", "training"} =>
      /\ (Supervised(j) => HasEntry(j))
      /\ (HasEntry(j) => wstate[j] # "none")
      /\ removals[j] <= 1
      /\ (pc[j] = "done" /\ wstate[j] = "exited" => removals[j] = 1)

\* C6: when a registered running job was cancelled and its worker then ended
\* because of the signal, having printed no error event, the entry is gone and
\* the outcome is Cancelled: one "stopped" notification, no error, and not the
\* notification of a completed run.
C6_CancelledIsStopped ==
  \A j \in Jobs :
    (/\ kind[j] \in {"dataset", "training"}
     /\ kills[Pid(j)].direct > 0 /\ sigd[j]
     /\ wstate[j] = "exited" /\ wcode[j] \in {CodeNone, CodeSigterm}
     /\ ~Has(Printed(j), LineError)
     /\ waitRes[j] = "ok" /\ pc[j] = "done")
    => /\ ~HasEntry(j)
       /\ SupCount(j, "stopped") = 1
       /\ SupCount(j, "error") = 0
       /\ SupCount(j, "complete") = 0

\* the entry a cancelling command that is leaving "idle" looks up is absent
LooksUpAbsent ==
  /\ stopPc = "idle" /\ stopPc' # "idle"
  /\ \/ stopCmd' = "stop_generation" /\ GENERATION_PID = NoPid
     \/ stopCmd' = "stop_training" /\ TRAINING_PROCESSES[stopJob'] = NoPid

\* C7: cancelling a job id that is not in the registry returns "not found",
\* sends no signal and leaves the registry as it was.
C7_UnknownCancelIsInert ==
  [][LooksUpAbsent =>
       /\ stopPc' = "not_found"
       /\ UNCHANGED <<GENERATION_PID, TRAINING_PROCESSES, kills, sigd>>]_vars

\* a "not found" is being returned for an unknown id while a job is registered
C7_Witness ==
  /\ stopPc = "not_found" /\ stopCmd = "stop_training" /\ stopJob = UnknownJob
  /\ \E j \in Jobs : TRAINING_PROCESSES[j] # NoPid /\ wstate[j] = "running"

\* C8: a worker that printed `complete` and exited with status 0 within the
\* timeout is Succeeded: the supervisor emits no error of its own.
C8_CompleteExitZeroSucceeds ==
  \A j \in Jobs :
    (/\ pc[j] = "done" /\ waitRes[j] = "ok" /\ Success(wcode[j]) /\ ~timed_out[j]
     /\ Has(Printed(j), LineComplete))
    => SupCount(j, "error") = 0

\* C9: in export, dataset generation and inference, when the worker printed
\* an `error` event and exited non-zero, the supervisor adds no error
\* notification of its own.
C9_ExplicitErrorIsOnlyReport ==
  \A j \in Jobs :
    (/\ kind[j] \in {"export", "dataset", "inference"}
     /\ pc[j] = "done" /\ waitRes[j] = "ok" /\ ~timed_out[j]
     /\ wcode[j] \in ExitCodes \ {0, CodeNone}
     /\ Has(outRead[j], LineError))
    => SupCount(j, "error") = 0

\* the event the codec owes for a line: typed if it parses, else a log record
\* carrying the line
Owed(j, line) ==
  IF ParsesAsJson(line)
  THEN Event(kind[j], EventType(line), "stdout", "", line, "", <<>>, 0)
  ELSE Event(kind[j], "log", "stdout", "", line, "", <<>>, 0)

FromStdout(j) == SelectSeq(sink[j], LAMBDA e : e.src = "stdout")

\* C10: in cleaning, dataset generation, export and inference, every line
\* read from stdout has exactly one event in the sink: typed if the line
\* parses, otherwise a log record carrying the line.
C10_NoLineDropped ==
  \A j \in Jobs :
    kind[j] \in {"cleaning", "dataset", "export", "inference"} =>
      /\ Len(FromStdout(j)) = Len(outRead[j])
      /\ \A i \in 1..Len(FromStdout(j)) :
           [FromStdout(j)[i] EXCEPT !.key = ""] = Owed(j, outRead[j][i])

\* ------------------------------------------------------------------------
\* C11..C20
\* ------------------------------------------------------------------------

\* the line is a structured record with a string discriminant
HasStringType(line) == line.json /\ line.obj /\ line.typed

\* C11: in cleaning and dataset jobs, the event made from a stdout line has
\* the discriminant "log" if and only if the line is not a structured record
\* with a string "type" field, and a line with a string "type" yields that
\* type.
C11_LogIffNoStringType ==
  \A j \in Jobs :
    kind[j] \in {"cleaning", "dataset"} =>
      \A i \in 1..Len(sink[j]) :
        LET e == sink[j][i]
        IN  e.src = "stdout" =>
              /\ (e.type = "log") <=> ~HasStringType(e.line)
              /\ HasStringType(e.line) => e.type = e.line.type

\* some listed daemon gives a path: it exposes a non-empty OLLAMA_MODELS
Exposes(d) == ollama_models_from_daemon_pid(d) # NoPath

DaemonRuns == pgrepOk /\ daemons # <<>>

\* C12: resolve_ollama_models_dir returns the first answer in the order live
\* daemon, shell environment, saved configuration, default: the value A of a
\* running daemon that exposes one whatever the shell and the configuration
\* hold; with no daemon running the shell's value B if there is one, else the
\* configured value C if there is one, else the default directory.
C12_FirstSourceWins ==
  resolved # "unset" =>
    /\ (DaemonRuns /\ Exposes(daemons[1]))
         => resolved = ollama_models_from_daemon_pid(daemons[1])
    /\ (~DaemonRuns /\ shellModels = "B") => resolved = "B"
    /\ (~DaemonRuns /\ shellModels # "B" /\ cfgModels = "C") => resolved = "C"
    /\ (~DaemonRuns /\ shellModels # "B" /\ cfgModels = NoPath)
         => resolved = DefaultDir

\* C12 witness: a daemon reports A1 while the shell holds B and the
\* configuration holds C, and the call returned A1.
C12_Witness ==
  /\ DaemonRuns /\ Exposes(daemons[1]) /\ shellModels = "B" /\ cfgModels = "C"
  /\ resolved = "A1"

\* C12 witness of the lower ranks: no daemon, shell B over configuration C
C12_WitnessShell ==
  ~DaemonRuns /\ shellModels = "B" /\ cfgModels = "C" /\ resolved = "B"

\* the value of OLLAMA_MODELS in the environment ps printed for a daemon: that
\* of its first OLLAMA_MODELS= token ("" when ps failed or there is none)
VarOf(d) ==
  LET at == {i \in 1..Len(d.cmd) : d.cmd[i].name = "OLLAMA_MODELS"}
  IN  IF ~d.ok \/ at = {} THEN ""
      ELSE d.cmd[CHOOSE i \in at : \A k \in at : i <= k].value

\* C13: when at least one daemon runs and none exposes the override variable,
\* resolve_ollama_models_dir returns the default directory whatever the shell
\* and the configuration hold; when several daemons run, it returns the value
\* of the first one, in the order of the pid list, that exposes the variable.
C13_RunningDaemonDecides ==
  (resolved # "unset" /\ DaemonRuns) =>
    /\ (\A i \in 1..Len(daemons) : VarOf(daemons[i]) = "")
         => resolved = DefaultDir
    /\ \A i \in 1..Len(daemons) :
         (VarOf(daemons[i]) # "" /\ \A k \in 1..(i - 1) : VarOf(daemons[k]) = "")
           => resolved = VarOf(daemons[i])

\* C13 witness: two daemons expose different values, the shell and the
\* configuration hold values too, and the call returned the first daemon's.
C13_Witness ==
  /\ DaemonRuns /\ Len(daemons) = 2
  /\ VarOf(daemons[1]) = "A1" /\ VarOf(daemons[2]) = "A2"
  /\ shellModels = "B" /\ cfgModels = "C"
  /\ resolved = "A1"

\* C13 witness of the default: a daemon runs without the variable while the
\* shell and the configuration hold values, and the call returned the default.
C13_WitnessDefault ==
  /\ DaemonRuns /\ \A i \in 1..Len(daemons) : VarOf(daemons[i]) = ""
  /\ shellModels = "B" /\ cfgModels = "C"
  /\ resolved = DefaultDir

\* the job ended Failed, Cancelled or with a launch failure: the supervisor
\* emitted dataset:error or dataset:stopped
EndedWithoutVersion(j) ==
  kind[j] = "dataset" /\ (SupCount(j, "error") > 0 \/ SupCount(j, "stopped") > 0)

\* C14: once a dataset job has ended Failed, Cancelled or with a launch
\* failure, its tentative directory does not exist and list_dataset_versions
\* has no entry for it, even when the worker had written train.jsonl into it.
C14_FailuresLeaveNothing ==
  \A j \in Jobs :
    EndedWithoutVersion(j) =>
      /\ ~fs[output_dir[j]].exists
      /\ output_dir[j] \notin list_dataset_versions

\* the dataset:version notifications of a sink
VersionEvents(s) ==
  SelectSeq(s, LAMBDA e : e.src = "sup" /\ e.type = "version")

\* the step in which generate_dataset sees its worker's exit status 0
FinalizeStep(j) ==
  /\ kind[j] = "dataset" /\ waitRes[j] = "none" /\ waitRes'[j] = "ok"
  /\ wcode[j] = 0

\* C15: when the dataset worker exits with status 0 the finalizing step emits
\* the one version notification of the job; the version it carries is the
\* completion timestamp or the tentative name and names a directory that
\* exists, and when the two names differ the directory exists under exactly
\* one of them.  No other step emits a version notification.
C15_FinalizeNeverFails ==
  [][\A j \in Jobs :
       /\ FinalizeStep(j) =>
            LET final == clock
                tent == output_dir[j]
                v == version_id'[j]
            IN  /\ Len(VersionEvents(sink'[j])) = 1
                /\ VersionEvents(sink'[j])[1].text = <<v>>
                /\ v \in {final, tent}
                /\ fs'[v].exists
                /\ final # tent => (fs'[final].exists # fs'[tent].exists)
       /\ ~FinalizeStep(j) =>
            Len(VersionEvents(sink'[j])) = Len(VersionEvents(sink[j]))
    ]_vars

\* the directory job j has as its tentative or finalized output directory
Using(j) ==
  IF dir[j] \notin {"tentative", "final"} THEN NoName
  ELSE IF version_id[j] # NoName THEN version_id[j]
  ELSE output_dir[j]

\* C16: no two generate_dataset jobs of a project ever have the same
\* directory as their tentative or finalized output directory.
C16_OneJobPerDirectory ==
  \A i, j \in Jobs :
    (i # j /\ Using(i) # NoName /\ Using(j) # NoName) => Using(i) # Using(j)

\* C17: in every job kind, no line read from the worker's stderr is
\* forwarded to the sink as an event of its own.
C17_StderrNeverLive ==
  \A j \in Jobs : \A i \in 1..Len(sink[j]) : sink[j][i].src # "stderr"

\* the lines of the events the stdout loop emitted, in the order of the sink
StdoutEventLines(j) ==
  LET evs == FromStdout(j) IN [i \in 1..Len(evs) |-> evs[i].line]

\* the lines read from stdout for which the stdout loop emits an event
EventfulLines(j) ==
  SelectSeq(outRead[j], LAMBDA l : StdoutEvents(kind[j], l, reqId[j]) # <<>>)

\* C18: within one job of any kind, the events made from stdout lines stand
\* in the sink in exactly the order in which the lines were read.
C18_StdoutOrderKept ==
  \A j \in Jobs : StdoutEventLines(j) = EventfulLines(j)

\* C18 witness: two different lines were read and their two events stand in
\* the sink in that order.
C18_Witness ==
  \E j \in Jobs :
    /\ outRead[j] = <<LineProgress, LineComplete>>
    /\ StdoutEventLines(j) = <<LineProgress, LineComplete>>

\* C19: every event delivered to the sink carries a correlation key (project
\* id, job id or request id).
C19_EveryEventKeyed ==
  \A j \in Jobs : \A i \in 1..Len(sink[j]) : sink[j][i].key # "none"

\* C20: a worker of any kind that writes to stdout and stderr through bounded
\* pipes and then exits is drained: both streams are read to end of file and
\* the supervisor finishes; a worker blocked on a full pipe is always
\* unblocked, and a line waiting in the stdout pipe is always read.
C20_DrainingCannotDeadlock ==
  \A j \in Jobs :
    /\ (wstate[j] = "running") ~> (pc[j] = "done" /\ OutEof(j) /\ ErrEof(j))
    /\ (blocked[j] # "none") ~> (blocked[j] = "none")
    /\ (outPipe[j] # <<>>) ~> (outPipe[j] = <<>>)

\* ------------------------------------------------------------------------
\* C21..C30
\* ------------------------------------------------------------------------

\* the step in which a cancelling command makes its kill calls
KillStep == stopPc \in {"gen_kill", "train_kill"} /\ stopPc' # stopPc

\* the step in which a cancelling command reads the registry
LookupStep == stopPc = "idle" /\ stopPc' # "idle"

\* C21: a cancellation that finds a registered pid p goes on to its kill
\* calls, and these send SIGTERM once to the process group -p and once to the
\* process p, p being the pid of the spawned wrapper that was registered.
C21_TwoSignalsPerCancel ==
  [][/\ (LookupStep /\ stopPid' # NoPid) => stopPc' \in {"gen_kill", "train_kill"}
     /\ KillStep =>
          /\ \E j \in Jobs : Pid(j) = stopPid /\ wstate[j] # "none"
          /\ kills'[stopPid].group = kills[stopPid].group + 1
          /\ kills'[stopPid].direct = kills[stopPid].direct + 1
          /\ \A p \in Pids \ {stopPid} : kills'[p] = kills[p]
    ]_vars

\* C21 witness: a cancelling command found a pid and has sent both signals
C21_Witness ==
  /\ stopPc = "sent" /\ stopPid \in Pids
  /\ kills[stopPid] = [group |-> 1, direct |-> 1]


\* the job's launch was refused: it is finished and never had a worker
LaunchRefused(j) == pc[j] = "done" /\ wstate[j] = "none" /\ sink[j] # <<>>

\* C22: when the operating system refuses to start the worker, the job ends
\* Failed with exactly one error notification, which carries the launch
\* error; no registry entry exists for a job without a worker, nothing is
\* read from pipes or waited for, no success or version notification is
\* emitted, and a dataset job's tentative directory is gone.
C22_RefusedLaunchFailsOnce ==
  \A j \in Jobs :
    /\ (wstate[j] = "none" /\ kind[j] # "none") =>
         /\ ~HasEntry(j) /\ removals[j] = 0
         /\ outRead[j] = <<>> /\ stderrBuf[j] = <<>> /\ waitRes[j] = "none"
    /\ LaunchRefused(j) =>
         /\ SupCount(j, "error") = 1
         /\ TerminalCount(j) = 1
         /\ \A i \in 1..Len(sink[j]) :
              sink[j][i].type = "error" => sink[j][i].msg = "spawn_err"
         /\ kind[j] = "dataset" => ~fs[output_dir[j]].exists /\ dir[j] = "removed"

\* C23: a start command whose preconditions are unmet returns its error
\* before anything else happens and the job never starts: it stays
\* rejected, has no worker, no registry entry, no directory, and no
\* notification of it ever reaches the sink.
C23_RejectedStartLeavesNoTrace ==
  /\ [](\A j \in Jobs : pc[j] = "rejected" =>
          /\ wstate[j] = "none" /\ sink[j] = <<>>
          /\ ~HasEntry(j) /\ removals[j] = 0
          /\ dir[j] = "absent" /\ output_dir[j] = NoName)
  /\ [][\A j \in Jobs : pc[j] = "rejected" => pc'[j] = "rejected"]_vars

\* a rejected job, with a cancel command issued and finished afterwards
C23_Witness ==
  \E j \in Jobs :
    /\ pc[j] = "rejected" /\ sink[j] = <<>>
    /\ stopPc \in {"sent", "not_found"}

\* the exit status generate_dataset takes for a stop: SIGTERM's 143, or no
\* exit code at all because a signal ended the worker
SignalExit(j) == wcode[j] \in {CodeSigterm, CodeNone}

\* an error event made from the worker's stdout stands in the sink ahead of
\* the supervisor's "stopped" notification
StoppedAfterError(j) ==
  \E i, k \in 1..Len(sink[j]) :
    /\ i < k
    /\ sink[j][i].src = "stdout" /\ sink[j][i].type = "error"
    /\ sink[j][k].src = "sup" /\ sink[j][k].type = "stopped"

\* C24: a dataset job whose worker's exit is consistent with a signal and
\* that printed no error event is Cancelled: the tentative directory is
\* removed and the supervisor emits exactly one "stopped" and no error; a
\* signal exit that follows an explicit error event is not Cancelled, so no
\* "stopped" is emitted after a forwarded error event.
C24_SignalExitCancelsUnlessError ==
  \A j \in Jobs :
    kind[j] = "dataset" =>
      /\ (/\ waitRes[j] = "ok" /\ SignalExit(j)
          /\ ~Has(Printed(j), LineError)) =>
            /\ SupCount(j, "stopped") = 1 /\ SupCount(j, "error") = 0
            /\ dir[j] = "removed" /\ ~fs[output_dir[j]].exists
      /\ ~StoppedAfterError(j)


\* the supervisor's own error notifications of a job
SupErrors(j) == SelectSeq(sink[j], LAMBDA e : e.src = "sup" /\ e.type = "error")

\* C25: when the deadline of an export job fires, the worker is killed
\* first; the task then emits the timeout error and finishes.  From the
\* deadline on no stdout line is read and the exit status is never
\* classified; once finished the task stays finished, and the timeout error
\* is the only error the supervisor made for the job.
C25_TimeoutKillsReportsAndReturns ==
  /\ [](\A j \in Jobs : timed_out[j] =>
          /\ kind[j] = "export" /\ wstate[j] = "exited"
          /\ pc[j] \in {"kill", "done"} /\ waitRes[j] = "none"
          /\ pc[j] = "kill" => SupErrors(j) = <<>>
          /\ pc[j] = "done" => (Len(SupErrors(j)) = 1 /\ SupErrors(j)[1].msg = "timeout"))
  /\ [][\A j \in Jobs : timed_out[j] =>
          /\ timed_out'[j] /\ outRead'[j] = outRead[j]
          /\ pc[j] = "done" => (pc'[j] = "done" /\ sink'[j] = sink[j])]_vars

\* C25 witness: the deadline fired on a running worker that had printed an
\* error event, with a line left unread in its stdout pipe; the worker is
\* killed and the task has finished with the timeout error
C25_Witness ==
  \E j \in Jobs :
    /\ timed_out[j] /\ wcode[j] = CodeNone /\ pc[j] = "done"
    /\ Has(outRead[j], LineError) /\ outPipe[j] # <<>>
    /\ Len(SupErrors(j)) = 1


\* stderr has at least one line that is not blank
HasNonBlank(buf) == \E i \in 1..Len(buf) : ~buf[i].blank

\* C26: the message of a Failed export job follows a strict priority: when
\* the worker printed an error event the supervisor adds no message of its
\* own; otherwise the message is the tail of the buffered stderr when stderr
\* has a non-blank line; otherwise, also when stderr holds blank lines only,
\* it is the generic fallback text.
C26_MessagePriority ==
  \A j \in Jobs :
    (kind[j] = "export" /\ pc[j] = "done" /\ waitRes[j] = "ok") =>
      /\ emitted_error[j] => SupErrors(j) = <<>>
      /\ SupErrors(j) # <<>> =>
           IF HasNonBlank(stderrBuf[j])
           THEN /\ SupErrors(j)[1].msg = "stderr_tail"
                /\ SupErrors(j)[1].text = LastN(TextLines(stderrBuf[j]), TailLines)
           ELSE SupErrors(j)[1].msg = "generic"


\* the fallback notice about the locale flag stands in the sink
LangFallbackNoticed(j) ==
  \E i \in 1..Len(sink[j]) : sink[j][i].src = "sup" /\ sink[j][i].msg = "lang_fallback"

\* C27: for every spawned worker of a cleaning, dataset, export or inference
\* job, "--lang" is among its arguments only if the start command probed
\* the script and found the flag supported, and exactly one of the two
\* happened: the flag was passed, or the fallback notice was emitted.
C27_LangOnlyWhenProbed ==
  \A j \in Jobs :
    (wstate[j] # "none" /\ kind[j] \in {"cleaning", "dataset", "export", "inference"}) =>
      /\ argv_lang[j] => (ProbesLang(kind[j]) /\ supports_lang[j])
      /\ argv_lang[j] # LangFallbackNoticed(j)


\* the step in which the worker of job j comes into being
Spawned(j) == wstate[j] = "none" /\ wstate'[j] = "running"

\* C30: for a dataset job, the tentative directory exists and holds
\* meta.json at the moment the worker is spawned, and as long as the worker
\* runs under its supervisor the directory keeps the sidecar.
C30_SidecarBeforeWorker ==
  /\ [][\A j \in Jobs : (kind[j] = "dataset" /\ Spawned(j)) =>
          /\ output_dir[j] # NoName /\ dir[j] = "tentative"
          /\ fs[output_dir[j]].exists /\ fs[output_dir[j]].meta]_vars
  /\ [](\A j \in Jobs : (kind[j] = "dataset" /\ wstate[j] = "running") =>
          (fs[output_dir[j]].exists /\ fs[output_dir[j]].meta))

\* how many commands the call has completed when it stands at a step
Completed(at) ==
  CASE at = "update" -> 0
    [] at = "quit" -> 1
    [] at = "pkill" -> 2
    [] at = "gone" -> 3
    [] at = "open" -> 4
    [] at = "back" -> 5
    [] at = "ok" -> 6

\* C28: a call of apply_ollama_models_dir_and_restart completes its
\* commands in one fixed order, none skipped: launchctl setenv or unsetenv,
\* quit, pkill, the wait for the daemons to go, open, the wait for a daemon
\* to appear; each wait makes a bounded number of turns and ends; and once
\* open was accepted the call returns Ok, whether or not a daemon appeared.
C28_RestartStepsInOrder ==
  /\ [](rpc \notin {"idle", "failed"} =>
          /\ trail = SubSeq(RestartOrder(applied), 1, Completed(rpc))
          /\ (rpc # "update" => launchd = applied)
          /\ (rpc = "gone" => rounds < GoneRounds)
          /\ (rpc = "back" => rounds < BackRounds))
  /\ [](rpc = "failed" => Len(trail) \in {0, 4})
  /\ (rpc = "update") ~> (rpc \in {"ok", "failed"})
  /\ (rpc = "gone") ~> (rpc = "open")
  /\ (rpc = "back") ~> (rpc = "ok")

\* C28 witness: the call returned Ok after all six commands although pgrep
\* lists no daemon
C28_Witness ==
  /\ rpc = "ok" /\ trail = RestartOrder(applied)
  /\ pgrepOk /\ daemons = <<>>

\* C28 witness: the wait for the daemons to go ran out of time with a daemon
\* still listed, and the call went on to open
C28_WitnessLingering ==
  /\ rpc = "open" /\ pgrepOk /\ daemons # <<>>
  /\ trail = SubSeq(RestartOrder(applied), 1, 4)

\* C29: export_to_ollama calls apply_ollama_models_dir_and_restart exactly
\* when the directory resolve_ollama_models_dir gives differs from the export
\* target, with None when the target is the default directory and with the
\* target otherwise; when they are equal nothing of the restart happens; the
\* worker is spawned only when no call was needed or the call returned Ok;
\* and when the call fails the command returns its error and never spawns.
\* The two directories are those the command read: the target first, the
\* effective directory after it, and nothing of the restart before both.
C29_ReconcileBeforeExport ==
  /\ [](\A j \in Jobs : (kind[j] = "export" /\ pc[j] = "resolve") =>
          (resolved = "unset" /\ applied = "unset" /\ rpc = "idle" /\ trail = <<>>))
  /\ [](\A j \in Jobs : (kind[j] = "export" /\ resolved # "unset") =>
          /\ ollama_models_dir # "unset"
          /\ (applied # "unset") <=> (resolved # ollama_models_dir)
          /\ (applied # "unset") =>
               applied = (IF ollama_models_dir = DefaultDir THEN NoPath
                          ELSE ollama_models_dir)
          /\ (resolved = ollama_models_dir) =>
               (rpc = "idle" /\ trail = <<>> /\ launchd = NoPath)
          /\ (pc[j] \in {"spawn", "done"} \/ wstate[j] # "none") =>
               (applied = "unset" \/ rpc = "ok")
          /\ (rpc = "failed") =>
               (wstate[j] = "none" /\ pc[j] \in {"reconcile", "refused"}))
  /\ [][\A j \in Jobs : pc[j] = "refused" => pc'[j] = "refused"]_vars
  /\ \A j \in Jobs : (pc[j] = "reconcile" /\ rpc = "failed") ~> (pc[j] = "refused")
  /\ \A j \in Jobs : (pc[j] = "reconcile" /\ rpc = "ok") ~> (pc[j] = "spawn")

\* C29 witness: the daemon ran on another directory, the target was the
\* default one, the call was made with None and returned Ok, and the worker
\* was spawned afterwards
C29_Witness ==
  \E j \in Jobs :
    /\ kind[j] = "export" /\ wstate[j] = "running"
    /\ ollama_models_dir = DefaultDir /\ resolved # DefaultDir
    /\ applied = NoPath /\ rpc = "ok"

\* C29 witness: the configured directory is both the target and the
\* effective one, and the worker was spawned without any restart
C29_WitnessAligned ==
  \E j \in Jobs :
    /\ kind[j] = "export" /\ wstate[j] = "running"
    /\ ollama_models_dir = "C" /\ resolved = "C"
    /\ applied = "unset" /\ trail = <<>>

\* C29 witness: the configured directory was unset between the choice of
\* the target and the resolution, and the daemon was restarted on the target
C29_WitnessConfigChanged ==
  \E j \in Jobs :
    /\ kind[j] = "export" /\ pc[j] = "spawn"
    /\ ollama_models_dir = "C" /\ cfgModels = NoPath /\ resolved = DefaultDir
    /\ applied = "C" /\ rpc = "ok"

\* C29 witness: the call failed and the command returned its error
C29_WitnessFailed ==
  \E j \in Jobs :
    /\ pc[j] = "refused" /\ rpc = "failed" /\ wstate[j] = "none"
    /\ applied = "C"


\* the entries of the last listing that name directory n
EntriesOf(n) ==
  {i \in 1..Len(listing) : listing[i].version = TimestampVersion(n)}

\* the directories of the dataset root that hold train.jsonl
WithArtifact == {n \in Names : fs[n].exists /\ fs[n].train}

\* those of them that the process can stat and search, below a root it can
\* read and search
VisibleWithArtifact ==
  IF root_access = "ok" THEN {n \in WithArtifact : dir_access[n]} ELSE {}

\* the entries of the last listing that stand for the legacy flat layout
LegacyEntries == {i \in 1..Len(listing) : listing[i].version = LegacyVersion}

\* C31 (amended): list_dataset_versions returns an error when the dataset
\* root cannot be read and nothing when the root cannot be searched;
\* otherwise it returns Ok with an entry for a subdirectory exactly when the
\* subdirectory can be searched and holds train.jsonl, so a tentative
\* directory without the artifact is never listed; a directory whose
\* meta.json is absent or corrupt is listed with empty provenance; and the
\* legacy flat layout adds exactly one entry.
C31_ListedIffVisibleArtifact ==
  listed =>
    /\ list_result = (IF root_access = "no_read" THEN "Err" ELSE "Ok")
    /\ root_access # "ok" => listing = <<>>
    /\ \A n \in Names :
         /\ Cardinality(EntriesOf(n)) = (IF n \in VisibleWithArtifact THEN 1 ELSE 0)
         /\ \A i \in EntriesOf(n) :
              listing[i].provenance = (fs[n].meta /\ meta_valid[n])
    /\ Cardinality(LegacyEntries) = (IF legacy_flat /\ root_access = "ok" THEN 1 ELSE 0)
    /\ Len(listing) = Cardinality(VisibleWithArtifact) + Cardinality(LegacyEntries)

\* C31 witness: a directory with the artifact and a corrupt meta.json is
\* listed with empty provenance, a directory that holds only meta.json is
\* not listed, and the legacy layout gives its entry
C31_Witness ==
  /\ listed /\ list_result = "Ok" /\ legacy_flat /\ Len(listing) = 2
  /\ \E n, m \in Names :
       /\ fs[n].train /\ fs[n].meta /\ ~meta_valid[n] /\ EntriesOf(n) # {}
       /\ \A i \in EntriesOf(n) : ~listing[i].provenance
       /\ fs[m].exists /\ fs[m].meta /\ ~fs[m].train /\ EntriesOf(m) = {}

\* C31 witness: of two directories with the artifact the one that cannot be
\* searched is passed over
C31_WitnessPassedOver ==
  /\ listed /\ list_result = "Ok" /\ Len(listing) = 1
  /\ \E n, m \in Names :
       /\ fs[n].train /\ dir_access[n] /\ EntriesOf(n) # {}
       /\ fs[m].train /\ ~dir_access[m] /\ EntriesOf(m) = {}

\* C31 witness: the root with versions in it cannot be read, and the call
\* returned the error
C31_WitnessError ==
  listed /\ list_result = "Err" /\ WithArtifact # {} /\ legacy_flat

\* C31 as stated: list_dataset_versions returns an entry for a subdirectory
\* exactly when it holds train.jsonl, so a tentative directory without the
\* artifact is not listed; a directory whose meta.json is absent or corrupt
\* is listed with empty provenance; and the legacy flat layout adds exactly
\* one entry.
C31_ListedIffArtifact ==
  listed =>
    /\ \A n \in Names :
         /\ Cardinality(EntriesOf(n)) = (IF fs[n].exists /\ fs[n].train THEN 1 ELSE 0)
         /\ \A i \in EntriesOf(n) :
              listing[i].provenance = (fs[n].meta /\ meta_valid[n])
    /\ Cardinality({i \in 1..Len(listing) : listing[i].version = LegacyVersion})
         = (IF legacy_flat THEN 1 ELSE 0)
    /\ Len(listing) = Cardinality({n \in Names : fs[n].exists /\ fs[n].train})
                        + (IF legacy_flat THEN 1 ELSE 0)

\* C32: the listing is sorted newest first: the directory with the latest
\* timestamp among those listed is the first element, also when the legacy
\* flat layout is present (stated for a listing of a root and of
\* directories that can be read).
C32_NewestFirst ==
  (listed /\ root_access = "ok" /\ \A n \in Names : dir_access[n]) =>
    \A n \in Names :
      (/\ fs[n].exists /\ fs[n].train
       /\ \A m \in Names : (fs[m].exists /\ fs[m].train) => m <= n)
        => listing[1].version = TimestampVersion(n)


\* C33: the batch size start_training passes to the worker never exceeds the
\* smaller of the non-blank line counts of train.jsonl and valid.jsonl,
\* whatever size was asked for, also when a split has no non-blank line.
C33_BatchWithinSmallestSplit ==
  batch.done => batch.passed <= Min(batch.train, batch.valid)

\* C34: stop_training issues its two kill calls only while the registry
\* entry it looked up is still present and the job has not become terminal:
\* no interleaving with the job's own completion path lets the signals go to
\* the pid of a finished job.
C34_KillOnlyWhileRegistered ==
  [][(stopPc = "train_kill" /\ stopPc' # stopPc) =>
        /\ TRAINING_PROCESSES[stopJob] = stopPid
        /\ \A j \in Jobs : Pid(j) = stopPid => pc[j] # "done"]_vars

\* C35: a dataset job is reported "stopped" only when stop_generation sent
\* its signals to the job's worker: a worker that exits by itself with code
\* 143, or that a signal from elsewhere ended, is not reported as stopped.
C35_StoppedOnlyWhenCancelled ==
  \A j \in Jobs :
    (kind[j] = "dataset" /\ SupCount(j, "stopped") > 0) => kills[Pid(j)].direct > 0

\* the supervisor's notification of the exit stands in the sink ahead of an
\* event made from a stdout line
StdoutAfterTerminal(j) ==
  \E i, k \in 1..Len(sink[j]) :
    /\ i < k
    /\ sink[j][i].src = "sup" /\ sink[j][i].type \in TerminalTypes
    /\ sink[j][k].src = "stdout"

\* C36: in dataset generation and cleaning no event made from a stdout line
\* reaches the sink after the notification the supervisor emits on exit, and
\* the tentative directory is renamed or removed only once stdout has been
\* read to end of file.
C36_ExitHandledAfterDrain ==
  \A j \in Jobs :
    kind[j] \in {"dataset", "cleaning"} =>
      /\ ~StdoutAfterTerminal(j)
      /\ (wstate[j] = "exited" /\ dir[j] \in {"final", "removed"}) => OutEof(j)


\* the supervisor's terminal notifications of a job
SupTerminals(j) ==
  SelectSeq(sink[j], LAMBDA e : e.src = "sup" /\ e.type \in TerminalTypes)

\* C37: in a training job the terminal notification is emitted only when
\* stdout and stderr have both been read to end of file, so it is the last
\* event of the job in the sink, after every training-log event; and the
\* supervising task removes the registry entry only after it has emitted
\* that notification.
C37_TrainingTerminalLast ==
  /\ [](\A j \in Jobs : (kind[j] = "training" /\ SupTerminals(j) # <<>>) =>
          /\ OutEof(j) /\ ErrEof(j)
          /\ Len(SupTerminals(j)) = 1
          /\ sink[j][Len(sink[j])] = SupTerminals(j)[1])
  /\ [][\A j \in Jobs :
          (kind[j] = "training" /\ pc[j] = "remove" /\ pc'[j] # "remove") =>
            (SupTerminals(j) # <<>> /\ sink'[j] = sink[j])]_vars

\* C38: a start_cleaning call that is rejected for its configuration
\* (runtime not ready, raw/ missing, script missing) leaves the project's
\* cleaned/ directory and its contents as they were.
C38_RejectedCleaningKeepsFiles ==
  [][\A j \in Jobs :
       (kind[j] = "cleaning" /\ pc[j] = "idle" /\ pc'[j] = "rejected") =>
         cleaned' = cleaned]_vars


\* the call stopped at the launchctl command
LaunchctlFailed == rpc = "failed" /\ trail = <<>>

\* C39: when launchctl fails, apply_ollama_models_dir_and_restart returns
\* its error with no later command run: nothing is quit, killed or
\* relaunched, then or later, and the launchctl value stays as it was, so
\* that the call leaves the daemons to themselves: one that ends or starts
\* afterwards does so of itself; and export_to_ollama,
\* fix_ollama_models_path and reset_ollama_models_path return that error,
\* never success.
C39_LaunchctlFailureStopsAll ==
  /\ [][(rpc = "update" /\ rpc' = "failed") =>
          (trail' = <<>> /\ launchd' = launchd /\ daemons' = daemons)]_vars
  /\ [][LaunchctlFailed =>
          /\ LaunchctlFailed' /\ launchd' = launchd
          /\ daemons' # daemons => DaemonStep]_vars
  /\ [](rpc \notin {"idle", "update", "failed"} =>
          (trail # <<>> /\ Head(trail) = LaunchctlVerb(applied) /\ launchd = applied))
  /\ [](LaunchctlFailed =>
          /\ pathCmd.result # "ok"
          /\ \A j \in Jobs : wstate[j] = "none" /\ pc[j] \notin {"spawn", "done"})
  /\ (LaunchctlFailed /\ pathCmd.result = "pending") ~> (pathCmd.result = "err")
  /\ \A j \in Jobs : (LaunchctlFailed /\ pc[j] = "reconcile") ~> (pc[j] = "refused")

\* C39 witness: reset_ollama_models_path returned the error of a failed
\* launchctl while a daemon runs
C39_Witness ==
  /\ LaunchctlFailed /\ pathCmd = [name |-> "reset", result |-> "err"]
  /\ pgrepOk /\ daemons # <<>>

\* C39 witness: export_to_ollama returned the error of a failed launchctl
C39_WitnessExport ==
  \E j \in Jobs : LaunchctlFailed /\ pc[j] = "refused" /\ daemons # <<>>


\* C40: the relaunch runs only once every `ollama serve` of before the
\* update has gone, and when apply_ollama_models_dir_and_restart has
\* returned Ok no daemon that was started before the update runs, so that
\* no daemon of before the update is read afterwards (stated for a pgrep
\* that lists the daemons).
C40_NoOldDaemonAfterRestart ==
  pgrepOk =>
    /\ rpc = "open" => \A i \in 1..Len(old_daemons) : ~old_daemons[i]
    /\ rpc = "ok" => \A i \in 1..Len(old_daemons) : ~old_daemons[i]

====
